---- MODULE Spec2Model ----
(***************************************************************************)
(* Civic-Hunter: priority scorers, hotspot clusterer, the /api/incidents   *)
(* aggregate, the /api/analyze-hotspots handler and the MapContainer load  *)
(* cycle.                                                                  *)
(*                                                                         *)
(* Conventions.  Text is a sequence of one-character strings, so that      *)
(* toLowerCase and String.includes are computed, not assumed.  Latitudes   *)
(* and longitudes are integers in hundredths of a degree (4187 = 41.87).   *)
(* Intensities are exact rationals [n, d] with d > 0.  A missing numeric   *)
(* field (undefined, null, NaN) is the value `undefined`.                  *)
(***************************************************************************)
EXTENDS Integers, Sequences, FiniteSets, TLC

\* The field names of the model's records.  Every record below lists its fields
\* in this order, which is also the order the model checker keeps them in.
FieldNames ==
  [ Map_Crime |-> 0, analyzedAt |-> 0, articles |-> 0, backend |-> 0, body |-> 0,
    cameraCount |-> 0, cameras |-> 0, category |-> 0, chicago |-> 0, chrgdesc |-> 0,
    city |-> 0, complaint_type |-> 0, correlations |-> 0, count |-> 0, crime |-> 0,
    damage |-> 0, date |-> 0, defined |-> 0, den |-> 0, description |-> 0,
    descriptor |-> 0, domain |-> 0, failed |-> 0, fallback |-> 0, hit_and_run_i |-> 0,
    hotspots |-> 0, id |-> 0, incidentCount |-> 0, incidents |-> 0,
    injuries_fatal |-> 0, injuries_incapacitating |-> 0, injuries_total |-> 0,
    intensity |-> 0, key |-> 0, kind |-> 0, lat |-> 0, latitude |-> 0, layer |-> 0,
    listeners |-> 0, lng |-> 0, load |-> 0, location |-> 0, longitude |-> 0,
    modal |-> 0, n |-> 0, name |-> 0, now |-> 0, num |-> 0, nyc |-> 0, outcome |-> 0,
    panel |-> 0, phase |-> 0, primary_type |-> 0, priority |-> 0, query |-> 0,
    records |-> 0, requests |-> 0, seed |-> 0, seendate |-> 0, settled |-> 0,
    source |-> 0, sourcecountry |-> 0, status |-> 0, summary |-> 0, text |-> 0,
    threatLevel |-> 0, time |-> 0, title |-> 0, topIncident |-> 0, totalPriority |-> 0,
    type |-> 0, unit |-> 0, value |-> 0, viewers |-> 0 ]

VARIABLES
  fn, arg, out,                    \* the pure call being observed: function, input, result
  reqCity, aggPhase, adapterState, adapterOut, response,    \* GET /api/incidents
  genAI, anReq, anPhase, aiReply, anResponse,      \* POST /api/analyze-hotspots
  mounted, mapReady, loads, lastFetched, lastFinished, incidents, cameras, hotspots,
  analysis, isLoading, markers, selectedCity, showLayer       \* MapContainer

pureVars == <<fn, arg, out>>
aggVars  == <<reqCity, aggPhase, adapterState, adapterOut, response>>
anVars   == <<genAI, anReq, anPhase, aiReply, anResponse>>
mapVars  == <<mounted, mapReady, loads, lastFetched, lastFinished, incidents, cameras, hotspots,
              analysis, isLoading, markers, selectedCity, showLayer>>
vars     == <<pureVars, aggVars, anVars, mapVars>>

-----------------------------------------------------------------------------
(* JavaScript values *)

\* undefined / null / NaN in a numeric position
undefined == -999999

\* an absent text field
NoText == <<"undefined">>

Truthy(x) == x # undefined /\ x # 0

\* x || d
OrElse(x, d) == IF Truthy(x) THEN x ELSE d

\* (s || '')
OrEmpty(s) == IF s = NoText THEN <<>> ELSE s

\* a > b on numbers; any comparison with NaN/undefined is false
Gt(a, b) == a # undefined /\ b # undefined /\ a > b

MathMin(a, b) == IF a < b THEN a ELSE b

UpperChars == <<"A","B","C","D","E","F","G","H","I","J","K","L","M","N","O","P","Q","R","S","T","U","V","W","X","Y","Z">>
LowerChars == <<"a","b","c","d","e","f","g","h","i","j","k","l","m","n","o","p","q","r","s","t","u","v","w","x","y","z">>

toLowerChar(c) ==
  IF \E i \in 1..26 : UpperChars[i] = c
  THEN LowerChars[CHOOSE i \in 1..26 : UpperChars[i] = c]
  ELSE c

toLowerCase(s) == [i \in 1..Len(s) |-> toLowerChar(s[i])]

\* String.prototype.includes
includes(text, pat) ==
  \E i \in 0..(Len(text) - Len(pat)) : SubSeq(text, i + 1, i + Len(pat)) = pat

\* terms.some(t => a.includes(t) || b.includes(t))
someIn2(terms, a, b) ==
  \E i \in 1..Len(terms) : includes(a, terms[i]) \/ includes(b, terms[i])

\* terms.some(t => a.includes(t))
someIn1(terms, a) == \E i \in 1..Len(terms) : includes(a, terms[i])

\* number of terms the text contains (forEach ... if (text.includes(term)))
countIn(terms, text) == Cardinality({i \in 1..Len(terms) : includes(text, terms[i])})

-----------------------------------------------------------------------------
(* Keyword tables *)

chiCritical ==
  << <<"h","o","m","i","c","i","d","e">>,
     <<"c","r","i","m","i","n","a","l"," ","s","e","x","u","a","l"," ","a","s","s","a","u","l","t">>,
     <<"r","o","b","b","e","r","y">>,
     <<"a","g","g","r","a","v","a","t","e","d"," ","a","s","s","a","u","l","t">>,
     <<"k","i","d","n","a","p","p","i","n","g">>,
     <<"a","r","s","o","n">> >>

chiHigh ==
  << <<"b","a","t","t","e","r","y">>,
     <<"b","u","r","g","l","a","r","y">>,
     <<"m","o","t","o","r"," ","v","e","h","i","c","l","e"," ","t","h","e","f","t">>,
     <<"w","e","a","p","o","n","s"," ","v","i","o","l","a","t","i","o","n">>,
     <<"n","a","r","c","o","t","i","c","s">> >>

chiMedium ==
  << <<"t","h","e","f","t">>,
     <<"c","r","i","m","i","n","a","l"," ","d","a","m","a","g","e">>,
     <<"a","s","s","a","u","l","t">>,
     <<"c","r","i","m","i","n","a","l"," ","t","r","e","s","p","a","s","s">> >>

evCritical ==
  << <<"h","o","m","i","c","i","d","e">>,
     <<"m","u","r","d","e","r">>,
     <<"r","a","p","e">>,
     <<"r","o","b","b","e","r","y">>,
     <<"k","i","d","n","a","p","p","i","n","g">>,
     <<"a","r","s","o","n">> >>

evHigh ==
  << <<"b","a","t","t","e","r","y">>,
     <<"b","u","r","g","l","a","r","y">>,
     <<"t","h","e","f","t">>,
     <<"w","e","a","p","o","n">>,
     <<"f","i","r","e","a","r","m">>,
     <<"i","n","t","i","m","i","d","a","t","i","o","n">>,
     <<"a","s","s","a","u","l","t">> >>

evMedium ==
  << <<"c","r","i","m","i","n","a","l"," ","m","i","s","c","h","i","e","f">>,
     <<"f","r","a","u","d">>,
     <<"f","o","r","g","e","r","y">>,
     <<"t","r","e","s","p","a","s","s">> >>

criticalTerms ==
  << <<"f","i","r","e">>,
     <<"s","h","o","o","t","i","n","g">>,
     <<"w","e","a","p","o","n">>,
     <<"g","a","s"," ","l","e","a","k">>,
     <<"e","x","p","l","o","s","i","o","n">>,
     <<"e","m","e","r","g","e","n","c","y">>,
     <<"a","s","s","a","u","l","t">>,
     <<"r","o","b","b","e","r","y">>,
     <<"c","o","l","l","a","p","s","e">> >>

highTerms ==
  << <<"a","c","c","i","d","e","n","t">>,
     <<"i","n","j","u","r","y">>,
     <<"m","e","d","i","c","a","l">>,
     <<"h","a","z","a","r","d">>,
     <<"d","a","n","g","e","r","o","u","s">> >>

clientCritical ==
  << <<"h","o","m","i","c","i","d","e">>,
     <<"c","r","i","m","i","n","a","l"," ","s","e","x","u","a","l"," ","a","s","s","a","u","l","t">>,
     <<"r","o","b","b","e","r","y">>,
     <<"k","i","d","n","a","p","p","i","n","g">>,
     <<"a","r","s","o","n">> >>

clientHigh ==
  << <<"b","a","t","t","e","r","y">>,
     <<"b","u","r","g","l","a","r","y">>,
     <<"m","o","t","o","r"," ","v","e","h","i","c","l","e"," ","t","h","e","f","t">>,
     <<"w","e","a","p","o","n","s"," ","v","i","o","l","a","t","i","o","n">> >>

clientCriticalTerms ==
  << <<"f","i","r","e">>,
     <<"s","h","o","o","t","i","n","g">>,
     <<"w","e","a","p","o","n">>,
     <<"g","a","s"," ","l","e","a","k">>,
     <<"e","x","p","l","o","s","i","o","n">>,
     <<"e","m","e","r","g","e","n","c","y">>,
     <<"a","s","s","a","u","l","t">> >>

-----------------------------------------------------------------------------
(* Priority scorers *)

HourMs == 3600000

\* server calculatePriority(incident): NYC 311 records
calculatePriorityUnclamped(incident) ==
  LET text == toLowerCase(OrEmpty(incident.complaint_type) \o <<" ">>
                          \o OrEmpty(incident.descriptor))
      p == 50 + 40 * countIn(criticalTerms, text) + 20 * countIn(highTerms, text)
              + (IF incident.status = "Open" THEN 10 ELSE 0)
  IN p

calculatePriority(incident) ==
  LET text == toLowerCase(OrEmpty(incident.complaint_type) \o <<" ">>
                          \o OrEmpty(incident.descriptor))
      p == 50 + 40 * countIn(criticalTerms, text) + 20 * countIn(highTerms, text)
              + (IF incident.status = "Open" THEN 10 ELSE 0)
  IN MathMin(p, 100)

\* the tier of a Chicago crime: first matching tier wins
chicagoTierMediumFirst(type, desc) ==
  IF someIn2(chiMedium, type, desc) THEN 55
  ELSE IF someIn2(chiHigh, type, desc) THEN 75
  ELSE IF someIn2(chiCritical, type, desc) THEN 95
  ELSE 50

chicagoTier(type, desc) ==
  IF someIn2(chiCritical, type, desc) THEN 95
  ELSE IF someIn2(chiHigh, type, desc) THEN 75
  ELSE IF someIn2(chiMedium, type, desc) THEN 55
  ELSE 50

\* the recency boost: crime.date within the hour before `now` (Date.now())
chicagoBoostAlways(date, now) == 10

chicagoBoost(date, now) ==
  IF date # undefined /\ Gt(date, now - HourMs) THEN 10 ELSE 0

\* server calculateChicagoCrimePriority(crime), evaluated at time `now`
calculateChicagoCrimePriority(crime, now) ==
  LET type == toLowerCase(OrEmpty(crime.primary_type))
      desc == toLowerCase(OrEmpty(crime.description))
  IN MathMin(chicagoTier(type, desc) + chicagoBoost(crime.date, now), 100)

\* server calculateEvansvilleCrimePriority(attrs)
calculateEvansvilleCrimePriority(attrs) ==
  LET crime == toLowerCase(OrEmpty(attrs.Map_Crime))
      desc  == toLowerCase(OrEmpty(attrs.chrgdesc))
      p == IF someIn2(evCritical, crime, desc) THEN 95
           ELSE IF someIn2(evHigh, crime, desc) THEN 75
           ELSE IF someIn2(evMedium, crime, desc) THEN 55
           ELSE 50
  IN MathMin(p, 100)

\* parseInt on the provider's numeric strings; anything else is NaN
parseInt(s) ==
  CASE s = "0" -> 0
    [] s = "1" -> 1
    [] s = "2" -> 2
    [] s = "3" -> 3
    [] OTHER -> undefined

\* a scorer that tests hit-and-run before the injuries below three
calculateCrashPriorityHitAndRunFirst(crash) ==
  LET p == IF Gt(parseInt(crash.injuries_fatal), 0) THEN 100
           ELSE IF Gt(parseInt(crash.injuries_incapacitating), 0) THEN 90
           ELSE IF Gt(parseInt(crash.injuries_total), 2) THEN 80
           ELSE IF crash.hit_and_run_i = "Y" THEN 75
           ELSE IF Gt(parseInt(crash.injuries_total), 0) THEN 70
           ELSE IF crash.damage = "OVER $1,500" THEN 55
           ELSE 45
  IN MathMin(p, 100)

\* server calculateCrashPriority(crash)
calculateCrashPriority(crash) ==
  LET p == IF Gt(parseInt(crash.injuries_fatal), 0) THEN 100
           ELSE IF Gt(parseInt(crash.injuries_incapacitating), 0) THEN 90
           ELSE IF Gt(parseInt(crash.injuries_total), 2) THEN 80
           ELSE IF Gt(parseInt(crash.injuries_total), 0) THEN 70
           ELSE IF crash.hit_and_run_i = "Y" THEN 75
           ELSE IF crash.damage = "OVER $1,500" THEN 55
           ELSE 45
  IN MathMin(p, 100)

\* client calculateChicagoCrimePriority(crime): category text only
clientCalculateChicagoCrimePriority(crime) ==
  LET type == toLowerCase(OrEmpty(crime.primary_type))
      p == IF someIn1(clientCritical, type) THEN 95
           ELSE IF someIn1(clientHigh, type) THEN 75
           ELSE 50
  IN MathMin(p, 100)

\* client calculatePriority(item)
clientCalculatePriority(item) ==
  LET t == toLowerCase(OrEmpty(item.complaint_type))
      d == toLowerCase(OrEmpty(item.descriptor))
      score == 50 + (IF someIn2(clientCriticalTerms, t, d) THEN 40 ELSE 0)
                  + (IF item.status = "Open" THEN 10 ELSE 0)
  IN MathMin(score, 100)

-----------------------------------------------------------------------------
(* Hotspot clusterer *)

\* exact rationals for intensities
Rat(n, d) == [den |-> d, num |-> n]

RatGt(a, b) == a.num * b.den > b.num * a.den

RatEq(a, b) == a.num * b.den = b.num * a.den

\* greatest common divisor of two naturals, gcd(0, 0) taken as 1
RECURSIVE gcd(_, _)
gcd(a, b) == IF b = 0 THEN (IF a = 0 THEN 1 ELSE a) ELSE gcd(b, a % b)

\* the sum in lowest terms
RatAdd(a, b) ==
  LET n == a.num * b.den + b.num * a.den
      d == a.den * b.den
  IN Rat(n \div gcd(n, d), d \div gcd(n, d))

\* a > k for an integer k
RatGtInt(a, k) == a.num > k * a.den

\* Math.round(x * 10) / 10 on hundredths of a degree, in tenths of a degree;
\* Math.round rounds halves towards +infinity
roundTenth(c) == (c + 5) \div 10

\* the cluster key `${round(lat)},${round(lng)}`
clusterKey(rec) == <<roundTenth(rec.lat), roundTenth(rec.lng)>>

\* index of the cluster with this key, 0 when there is none
clusterIndex(clusters, key) ==
  IF \E i \in 1..Len(clusters) : clusters[i].key = key
  THEN CHOOSE i \in 1..Len(clusters) : clusters[i].key = key
  ELSE 0

\* if (!locationClusters[key]) locationClusters[key] = {...}: the cluster keeps
\* the coordinates of the record that created it
withCluster(clusters, rec) ==
  IF clusterIndex(clusters, clusterKey(rec)) = 0
  THEN Append(clusters, [cameras |-> <<>>, incidents |-> <<>>, key |-> clusterKey(rec),
                         lat |-> rec.lat, lng |-> rec.lng, totalPriority |-> 0])
  ELSE clusters

\* an iteration that adds the incident's priority as it is, 50 only when the
\* incident has none
serverAddIncidentOwnPriority(clusters, incident) ==
  IF Truthy(incident.lat) /\ Truthy(incident.lng)
  THEN LET cs == withCluster(clusters, incident)
           k  == clusterIndex(cs, clusterKey(incident))
       IN [cs EXCEPT ![k].incidents = Append(@, incident),
                     ![k].totalPriority =
                        @ + (IF incident.priority = undefined THEN 50 ELSE incident.priority)]
  ELSE clusters

\* one iteration of incidents.forEach in performAlgorithmicAnalysis
serverAddIncident(clusters, incident) ==
  IF Truthy(incident.lat) /\ Truthy(incident.lng)
  THEN LET cs == withCluster(clusters, incident)
           k  == clusterIndex(cs, clusterKey(incident))
       IN [cs EXCEPT ![k].incidents = Append(@, incident),
                     ![k].totalPriority = @ + OrElse(incident.priority, 50)]
  ELSE clusters

\* one iteration of cameras.forEach in performAlgorithmicAnalysis
serverAddCamera(clusters, camera) ==
  IF Truthy(camera.lat) /\ Truthy(camera.lng) /\ Gt(camera.viewers, 50)
  THEN LET cs == withCluster(clusters, camera)
           k  == clusterIndex(cs, clusterKey(camera))
       IN [cs EXCEPT ![k].cameras = Append(@, camera),
                     ![k].totalPriority = @ + camera.viewers]
  ELSE clusters

\* locationClusters after both forEach loops, in insertion order
\* incidents.forEach(...) from the i-th incident on; the clusters so far are a
\* computed value (Len) before the next callback runs
RECURSIVE serverForEachIncident(_, _, _)
serverForEachIncident(clusters, incs, i) ==
  IF Len(clusters) >= 0 /\ i > Len(incs) THEN clusters
  ELSE serverForEachIncident(serverAddIncident(clusters, incs[i]), incs, i + 1)

\* cameras.forEach(...) from the i-th camera on
RECURSIVE serverForEachCamera(_, _, _)
serverForEachCamera(clusters, cams, i) ==
  IF Len(clusters) >= 0 /\ i > Len(cams) THEN clusters
  ELSE serverForEachCamera(serverAddCamera(clusters, cams[i]), cams, i + 1)

serverClusters(incs, cams) ==
  serverForEachCamera(serverForEachIncident(<<>>, incs, 1), cams, 1)

\* Math.min(100, totalPriority / (incidents.length + cameras.length + 1))
serverIntensityUnclamped(cluster) ==
  Rat(cluster.totalPriority, Len(cluster.incidents) + Len(cluster.cameras) + 1)

serverIntensity(cluster) ==
  LET cnt == Len(cluster.incidents) + Len(cluster.cameras) + 1
  IN IF cluster.totalPriority > 100 * cnt THEN Rat(100, 1)
     ELSE Rat(cluster.totalPriority, cnt)

\* the hotspot pushed for a cluster
serverHotspotRounded(cluster) ==
  [cameraCount |-> Len(cluster.cameras),
   incidentCount |-> Len(cluster.incidents),
   intensity |-> serverIntensity(cluster),
   lat |-> cluster.key[1] * 10, lng |-> cluster.key[2] * 10,
   topIncident |-> IF Len(cluster.incidents) > 0 THEN cluster.incidents[1].title
                   ELSE "High camera activity"]

serverHotspot(cluster) ==
  [cameraCount |-> Len(cluster.cameras),
   incidentCount |-> Len(cluster.incidents),
   intensity |-> serverIntensity(cluster),
   lat |-> cluster.lat, lng |-> cluster.lng,
   topIncident |-> IF Len(cluster.incidents) > 0 THEN cluster.incidents[1].title
                   ELSE "High camera activity"]

ServerThreshold == 30

ServerCap == 20

ServerCorrelationTop == 5

\* Object.values(locationClusters).forEach: keep the clusters above the threshold
serverCandidates(clusters) ==
  LET acc[i \in 0..Len(clusters)] ==
        IF i = 0 THEN <<>>
        ELSE IF RatGtInt(serverIntensity(clusters[i]), ServerThreshold)
             THEN Append(acc[i - 1], serverHotspot(clusters[i]))
             ELSE acc[i - 1]
  IN acc[Len(clusters)]

\* insert h after every element whose intensity is >= its own (stable, descending)
insertByIntensity(sorted, h) ==
  LET pos == Cardinality({i \in 1..Len(sorted) : ~ RatGt(h.intensity, sorted[i].intensity)})
  IN SubSeq(sorted, 1, pos) \o <<h>> \o SubSeq(sorted, pos + 1, Len(sorted))

\* the list left in insertion order
sortSkipped(hs) == hs

\* hotspots.sort((a, b) => b.intensity - a.intensity)
sortByIntensity(hs) ==
  LET acc[i \in 0..Len(hs)] ==
        IF i = 0 THEN <<>> ELSE insertByIntensity(acc[i - 1], hs[i])
  IN acc[Len(hs)]

\* array.slice(0, k)
slice0(s, k) == SubSeq(s, 1, MathMin(k, Len(s)))

\* hotspots.reduce((sum, h) => sum + h.intensity, 0)
sumIntensity(hs) ==
  LET acc[i \in 0..Len(hs)] ==
        IF i = 0 THEN Rat(0, 1) ELSE RatAdd(acc[i - 1], hs[i].intensity)
  IN acc[Len(hs)]

\* avgIntensity and the threat level derived from it
threatDefaultMedium(hs) == "medium"

serverThreatLevel(hs) ==
  LET avg == IF Len(hs) > 0
             THEN Rat(sumIntensity(hs).num, sumIntensity(hs).den * Len(hs))
             ELSE Rat(0, 1)
  IN IF RatGtInt(avg, 70) THEN "high"
     ELSE IF RatGtInt(avg, 40) THEN "medium"
     ELSE "low"

\* correlations over every hotspot, not only the first five
serverCorrelationsOfAll(hs) ==
  LET acc[i \in 0..Len(hs)] ==
        IF i = 0 THEN <<>>
        ELSE IF hs[i].incidentCount > 0 /\ hs[i].cameraCount > 0
             THEN Append(acc[i - 1],
                         [cameraCount |-> hs[i].cameraCount,
                          incidentCount |-> hs[i].incidentCount,
                          location |-> [lat |-> hs[i].lat, lng |-> hs[i].lng],
                          type |-> "incident-camera"])
             ELSE acc[i - 1]
  IN acc[Len(hs)]

\* correlations over hotspots.slice(0, 5)
serverCorrelations(hs) ==
  LET top == slice0(hs, ServerCorrelationTop)
      acc[i \in 0..Len(top)] ==
        IF i = 0 THEN <<>>
        ELSE IF top[i].incidentCount > 0 /\ top[i].cameraCount > 0
             THEN Append(acc[i - 1],
                         [cameraCount |-> top[i].cameraCount,
                          incidentCount |-> top[i].incidentCount,
                          location |-> [lat |-> top[i].lat, lng |-> top[i].lng],
                          type |-> "incident-camera"])
             ELSE acc[i - 1]
  IN acc[Len(top)]

\* an analysis that cuts the list to its cap before it counts and averages
performAlgorithmicAnalysisCutFirst(incs, cams, now) ==
  LET hs == slice0(sortByIntensity(serverCandidates(serverClusters(incs, cams))), ServerCap)
      threatLevel == serverThreatLevel(hs)
      correlations == serverCorrelations(hs)
  IN [analyzedAt |-> now,
      correlations |-> correlations,
      hotspots |-> hs,
      summary |-> [correlations |-> Len(correlations), hotspots |-> Len(hs),
                   threatLevel |-> threatLevel],
      threatLevel |-> threatLevel]

\* server performAlgorithmicAnalysis(incidents, cameras, news) run at time `now`;
\* the summary text is kept as the three numbers it interpolates
performAlgorithmicAnalysis(incs, cams, now) ==
  LET hs == sortByIntensity(serverCandidates(serverClusters(incs, cams)))
      threatLevel == serverThreatLevel(hs)
      correlations == serverCorrelations(hs)
  IN [analyzedAt |-> now,
      correlations |-> correlations,
      hotspots |-> slice0(hs, ServerCap),
      summary |-> [correlations |-> Len(correlations), hotspots |-> Len(hs),
                   threatLevel |-> threatLevel],
      threatLevel |-> threatLevel]

-----------------------------------------------------------------------------
(* Client fallback clusterer (dataService.ts) *)

\* an iteration that counts the incident whatever its coordinates
clientAddIncidentUnchecked(clusters, inc) ==
  LET cs == withCluster(clusters, inc)
      k  == clusterIndex(cs, clusterKey(inc))
  IN [cs EXCEPT ![k].incidents = Append(@, inc)]

\* one iteration of incidents.forEach in performLocalAnalysis
clientAddIncident(clusters, inc) ==
  IF Truthy(inc.lat) /\ Truthy(inc.lng)
  THEN LET cs == withCluster(clusters, inc)
           k  == clusterIndex(cs, clusterKey(inc))
       IN [cs EXCEPT ![k].incidents = Append(@, inc)]
  ELSE clusters

\* an iteration that counts the camera whatever its viewers
clientAddCameraAnyViewers(clusters, cam) ==
  IF Truthy(cam.lat) /\ Truthy(cam.lng)
  THEN LET cs == withCluster(clusters, cam)
           k  == clusterIndex(cs, clusterKey(cam))
       IN [cs EXCEPT ![k].cameras = Append(@, cam)]
  ELSE clusters

\* one iteration of cameras.filter(c => c.viewers > 50).forEach
clientAddCamera(clusters, cam) ==
  IF Gt(cam.viewers, 50) /\ Truthy(cam.lat) /\ Truthy(cam.lng)
  THEN LET cs == withCluster(clusters, cam)
           k  == clusterIndex(cs, clusterKey(cam))
       IN [cs EXCEPT ![k].cameras = Append(@, cam)]
  ELSE clusters

\* incidents.forEach(...) from the i-th incident on
RECURSIVE clientForEachIncident(_, _, _)
clientForEachIncident(clusters, incs, i) ==
  IF Len(clusters) >= 0 /\ i > Len(incs) THEN clusters
  ELSE clientForEachIncident(clientAddIncident(clusters, incs[i]), incs, i + 1)

\* cameras.filter(...).forEach(...) from the i-th camera on
RECURSIVE clientForEachCamera(_, _, _)
clientForEachCamera(clusters, cams, i) ==
  IF Len(clusters) >= 0 /\ i > Len(cams) THEN clusters
  ELSE clientForEachCamera(clientAddCamera(clusters, cams[i]), cams, i + 1)

\* the clusters after both loops, in insertion order
clientClusters(incs, cams) ==
  clientForEachCamera(clientForEachIncident(<<>>, incs, 1), cams, 1)

\* Math.min(100, incidents.length * 20 + cameras.length * 10)
clientIntensity(cluster) ==
  Rat(MathMin(100, Len(cluster.incidents) * 20 + Len(cluster.cameras) * 10), 1)

ClientThreshold == 20

ClientCap == 15

ClientMediumOver == 5

clientHotspot(cluster) ==
  [cameraCount |-> Len(cluster.cameras),
   incidentCount |-> Len(cluster.incidents),
   intensity |-> clientIntensity(cluster),
   lat |-> cluster.lat, lng |-> cluster.lng]

\* candidates kept from the threshold on
clientCandidatesFromThreshold(clusters) ==
  LET acc[i \in 0..Len(clusters)] ==
        IF i = 0 THEN <<>>
        ELSE IF ~ RatGt(Rat(ClientThreshold, 1), clientIntensity(clusters[i]))
             THEN Append(acc[i - 1], clientHotspot(clusters[i]))
             ELSE acc[i - 1]
  IN acc[Len(clusters)]

\* Object.values(clusters).forEach: keep the clusters above the threshold
clientCandidates(clusters) ==
  LET acc[i \in 0..Len(clusters)] ==
        IF i = 0 THEN <<>>
        ELSE IF RatGtInt(clientIntensity(clusters[i]), ClientThreshold)
             THEN Append(acc[i - 1], clientHotspot(clusters[i]))
             ELSE acc[i - 1]
  IN acc[Len(clusters)]

\* a client threat level derived from the mean intensity, as on the server
clientThreatLevelByMean(hs) == serverThreatLevel(hs)

\* threatLevel: hotspots.length > 5 ? 'medium' : 'low'
clientThreatLevel(hs) == IF Len(hs) > ClientMediumOver THEN "medium" ELSE "low"

\* client performLocalAnalysis(incidents, cameras) run at time `now`
performLocalAnalysis(incs, cams, now) ==
  LET hs == sortByIntensity(clientCandidates(clientClusters(incs, cams)))
  IN [analyzedAt |-> now,
      correlations |-> <<>>,
      hotspots |-> slice0(hs, ClientCap),
      summary |-> [hotspots |-> Len(hs)],
      threatLevel |-> clientThreatLevel(hs)]

-----------------------------------------------------------------------------
(* Inputs of the pure calls *)

MaxIncidents == 2

MaxCameras == 1

\* all sequences over S of length at most n
SeqsUpTo(S, n) == UNION {[1..k -> S] : k \in 0..n}

T_HOMICIDE == <<"H","O","M","I","C","I","D","E">>
T_Theft == <<"T","h","e","f","t">>
T_BATTERY == <<"B","A","T","T","E","R","Y">>
T_FIRE == <<"F","I","R","E">>
T_weapon == <<"w","e","a","p","o","n">>
T_GAS == <<"G","A","S">>
T_leak == <<"l","e","a","k">>
T_MEDICAL == <<"M","E","D","I","C","A","L">>

TextPool == {NoText, <<>>, T_HOMICIDE, T_Theft, T_BATTERY, T_FIRE, T_weapon,
             T_GAS, T_leak, T_MEDICAL}

StatusPool == {"Open", "Closed", "undefined"}

\* the clock of the scoring run and the record dates around it
NowPool == {50 * HourMs, 51 * HourMs}

DatePool == {undefined, 50 * HourMs - 1800000, 49 * HourMs, 40 * HourMs}

NumStrPool == {"undefined", "0", "1", "2", "3"}

\* incidents sent to the clusterer: three in cell (41.9,-87.6), one in
\* (40.7,-74.0), four without usable coordinates or with odd priorities
IncidentPool ==
  { [lat |-> 4187, lng |-> -8763, priority |-> 95, title |-> "A"],
    [lat |-> 4191, lng |-> -8758, priority |-> 40, title |-> "B"],
    [lat |-> 4188, lng |-> -8762, priority |-> 0, title |-> "C"],
    [lat |-> 4071, lng |-> -7401, priority |-> 150, title |-> "D"],
    [lat |-> 4072, lng |-> -7399, priority |-> undefined, title |-> "E"],
    [lat |-> 4187, lng |-> -8763, priority |-> -80, title |-> "F"],
    [lat |-> undefined, lng |-> -8763, priority |-> 95, title |-> "G"],
    [lat |-> 4187, lng |-> 0, priority |-> 95, title |-> "H"] }

CameraPool ==
  { [lat |-> 4189, lng |-> -8761, name |-> "cam1", viewers |-> 120],
    [lat |-> 4070, lng |-> -7400, name |-> "cam2", viewers |-> 51],
    [lat |-> 4189, lng |-> -8761, name |-> "cam3", viewers |-> 50],
    [lat |-> 4189, lng |-> -8761, name |-> "cam4", viewers |-> 900],
    [lat |-> undefined, lng |-> undefined, name |-> "cam5", viewers |-> 200],
    [lat |-> 4070, lng |-> -7400, name |-> "cam6", viewers |-> undefined] }

\* how many grid cells the generated many-cell inputs fill at most
MaxCells == 22

SeedPool == {1, 2, 3}

\* the incidents of cell i of a generated input: 1 to 4 records at one place,
\* one cell per tenth of a degree of latitude
gridCell(i, seed) ==
  [k \in 1..(1 + ((i + seed) % 4)) |->
     [lat |-> 3000 + 10 * i, lng |-> 0 - 8000,
      priority |-> 55 + ((i * seed * 7) % 46), title |-> "grid"]]

\* an input filling n cells
GridIncidents(n, seed) ==
  LET acc[i \in 0..n] == IF i = 0 THEN <<>> ELSE acc[i - 1] \o gridCell(i, seed)
  IN acc[n]

\* an input of n one-incident cells, two of them just above the server's
\* threshold (62 / 2 = 31) and the others at 81 / 2 = 40.5
FlatIncidents(n) ==
  [i \in 1..n |->
     [lat |-> 3000 + 10 * i, lng |-> 0 - 8000,
      priority |-> IF i <= 2 THEN 62 ELSE 81, title |-> "flat"]]

\* two busy cameras inside the generated cells: one with 51 viewers in cell 1,
\* one with 900 viewers in cell 3
GridCameras ==
  << [lat |-> 3010, lng |-> 0 - 8000, name |-> "grid1", viewers |-> 51],
     [lat |-> 3030, lng |-> 0 - 8000, name |-> "grid3", viewers |-> 900] >>

\* the many-cell incident lists
ManyCellIncidents ==
  {GridIncidents(n, seed) : n \in (MaxCells - 2)..MaxCells, seed \in SeedPool}
    \cup {FlatIncidents(n) : n \in (MaxCells - 2)..MaxCells}

\* the inputs the clusterers are called on: every short list of incidents with
\* every short list of cameras, and every many-cell list of incidents without
\* cameras and with the two cameras inside the cells
AnalysisInputs ==
  {[cameras |-> cams, incidents |-> incs] :
     incs \in SeqsUpTo(IncidentPool, MaxIncidents), cams \in SeqsUpTo(CameraPool, MaxCameras)}
    \cup {[cameras |-> cams, incidents |-> incs] :
            incs \in ManyCellIncidents, cams \in {<<>>, GridCameras}}

-----------------------------------------------------------------------------
(* The pure calls: each action is one call of one function on one input *)

PureIdle == fn = "none" /\ arg = <<>> /\ out = <<>>

Call(f, a, r) ==
  /\ fn' = f /\ arg' = a /\ out' = r
  /\ UNCHANGED <<aggVars, anVars, mapVars>>

CallCalculatePriority ==
  /\ fn = "none"
  /\ \E t \in TextPool, d \in TextPool, st \in StatusPool :
       LET incident == [complaint_type |-> t, descriptor |-> d, status |-> st]
       IN Call("calculatePriority", incident, calculatePriority(incident))

CallCalculateChicagoCrimePriority ==
  /\ fn = "none"
  /\ \E t \in TextPool, d \in TextPool, dt \in DatePool, now \in NowPool :
       LET crime == [date |-> dt, description |-> d, primary_type |-> t]
       IN Call("calculateChicagoCrimePriority", [crime |-> crime, now |-> now],
               calculateChicagoCrimePriority(crime, now))

CallCalculateEvansvilleCrimePriority ==
  /\ fn = "none"
  /\ \E t \in TextPool, d \in TextPool :
       LET attrs == [Map_Crime |-> t, chrgdesc |-> d]
       IN Call("calculateEvansvilleCrimePriority", attrs,
               calculateEvansvilleCrimePriority(attrs))

CallCalculateCrashPriority ==
  /\ fn = "none"
  /\ \E f \in NumStrPool, i \in NumStrPool, t \in NumStrPool,
        h \in {"Y", "N", "undefined"}, dmg \in {"OVER $1,500", "$501 - $1,500"} :
       LET crash == [damage |-> dmg, hit_and_run_i |-> h, injuries_fatal |-> f,
                     injuries_incapacitating |-> i, injuries_total |-> t]
       IN Call("calculateCrashPriority", crash, calculateCrashPriority(crash))

CallClientCalculateChicagoCrimePriority ==
  /\ fn = "none"
  /\ \E t \in TextPool, d \in TextPool :
       LET crime == [description |-> d, primary_type |-> t]
       IN Call("clientCalculateChicagoCrimePriority", crime,
               clientCalculateChicagoCrimePriority(crime))

CallClientCalculatePriority ==
  /\ fn = "none"
  /\ \E t \in TextPool, d \in TextPool, st \in StatusPool :
       LET item == [complaint_type |-> t, descriptor |-> d, status |-> st]
       IN Call("clientCalculatePriority", item, clientCalculatePriority(item))

CallPerformAlgorithmicAnalysis ==
  /\ fn = "none"
  /\ \E input \in AnalysisInputs, now \in NowPool :
       Call("performAlgorithmicAnalysis",
            [cameras |-> input.cameras, incidents |-> input.incidents, now |-> now],
            performAlgorithmicAnalysis(input.incidents, input.cameras, now))

CallPerformLocalAnalysis ==
  /\ fn = "none"
  /\ \E input \in AnalysisInputs, now \in NowPool :
       Call("performLocalAnalysis",
            [cameras |-> input.cameras, incidents |-> input.incidents, now |-> now],
            performLocalAnalysis(input.incidents, input.cameras, now))

\* the call returns; the next one starts from scratch
Return ==
  /\ fn # "none"
  /\ fn' = "none" /\ arg' = <<>> /\ out' = <<>>
  /\ UNCHANGED <<aggVars, anVars, mapVars>>

-----------------------------------------------------------------------------
(* GET /api/incidents: the aggregate over the provider adapters *)

Adapters ==
  {"fetchNYC311Incidents", "fetchChicago311Incidents", "fetchChicagoCrimes",
   "fetchChicagoTrafficCrashes", "fetchChicagoSpeedViolations",
   "fetchChicagoRedLightViolations", "fetchChicagoShotSpotter",
   "fetchChicagoBuildingViolations", "fetchEvansvilleCrimes",
   "fetchEvansvilleShotsFired"}

T_chicago == <<"c","h","i","c","a","g","o">>
T_Chicago == <<"C","h","i","c","a","g","o">>
T_evansville == <<"e","v","a","n","s","v","i","l","l","e">>
T_nyc == <<"n","y","c">>
T_paris == <<"p","a","r","i","s">>

\* the ?city= query values tried, NoText being a request without the parameter
CityQueryPool == {NoText, <<>>, T_chicago, T_Chicago, T_evansville, T_nyc, T_paris}

\* const city = req.query.city?.toLowerCase()
queryCity(q) == IF q = NoText THEN NoText ELSE toLowerCase(q)

\* the adapters a branch of the handler awaits, in the order it concatenates them
mergeOrder(city) ==
  IF city = T_chicago
  THEN << "fetchChicagoCrimes", "fetchChicagoTrafficCrashes", "fetchChicago311Incidents",
          "fetchChicagoShotSpotter", "fetchChicagoSpeedViolations",
          "fetchChicagoRedLightViolations", "fetchChicagoBuildingViolations" >>
  ELSE IF city = T_evansville
  THEN << "fetchEvansvilleCrimes", "fetchEvansvilleShotsFired" >>
  ELSE << "fetchNYC311Incidents", "fetchChicagoCrimes", "fetchChicagoTrafficCrashes",
          "fetchChicago311Incidents" >>

branchAdapters(city) == {mergeOrder(city)[i] : i \in 1..Len(mergeOrder(city))}

\* how many records a provider hands over at most
MaxRecords == 1

\* record k of the feed of adapter a's provider; the first record of two of the
\* feeds has no coordinates
providerRecord(a, k) ==
  LET bare == k = 1 /\ a \in {"fetchChicago311Incidents", "fetchEvansvilleShotsFired"}
  IN [date |-> IF k = 1 THEN 50 * HourMs - 1800000 ELSE undefined,
      id |-> k,
      injuries_total |-> IF k = 1 THEN "1" ELSE "0",
      latitude |-> IF bare THEN undefined ELSE 4180 + k,
      longitude |-> IF bare THEN undefined ELSE 0 - 8760 - k,
      status |-> IF k = 1 THEN "Open" ELSE "Closed",
      text |-> IF k = 1 THEN T_HOMICIDE ELSE IF k = 2 THEN T_Theft ELSE T_FIRE]

ProviderFeed(a, n) == [k \in 1..n |-> providerRecord(a, k)]

\* what a call to a provider can come to: a 2xx answer carrying an array, a
\* non-2xx answer, a rejected fetch or unparseable body, a body that is no array
Outcomes == {"ok", "status", "throws", "notArray"}

\* priority: ... of each adapter's mapping
adapterPriority(a, raw, now) ==
  CASE a = "fetchNYC311Incidents" ->
         calculatePriority([complaint_type |-> raw.text, descriptor |-> NoText,
                            status |-> raw.status])
    [] a = "fetchChicago311Incidents" -> 50
    [] a = "fetchChicagoCrimes" ->
         calculateChicagoCrimePriority(
           [date |-> raw.date, description |-> NoText, primary_type |-> raw.text], now)
    [] a = "fetchChicagoTrafficCrashes" ->
         calculateCrashPriority(
           [damage |-> "undefined", hit_and_run_i |-> "undefined",
            injuries_fatal |-> "undefined", injuries_incapacitating |-> "undefined",
            injuries_total |-> raw.injuries_total])
    [] a = "fetchChicagoSpeedViolations" -> 35
    [] a = "fetchChicagoRedLightViolations" -> 40
    [] a = "fetchChicagoShotSpotter" -> 85
    [] a = "fetchChicagoBuildingViolations" -> 45
    [] a = "fetchEvansvilleCrimes" ->
         calculateEvansvilleCrimePriority([Map_Crime |-> raw.text, chrgdesc |-> NoText])
    [] a = "fetchEvansvilleShotsFired" -> 90

\* data.map((record, index) => ({id, lat: parseFloat(..) || null, lng: .., source, priority}))
adapterMap(a, raw, now) ==
  [id |-> raw.id,
   lat |-> OrElse(raw.latitude, undefined),
   lng |-> OrElse(raw.longitude, undefined),
   priority |-> adapterPriority(a, raw, now),
   source |-> a]

hasCoordinates(i) == Truthy(i.lat) /\ Truthy(i.lng)

\* an adapter that passes the provider's records on whatever the answer was
adapterResultUnchecked(a, outcome, data, now) ==
  SelectSeq([k \in 1..Len(data) |-> adapterMap(a, data[k], now)], hasCoordinates)

\* an adapter: [] unless the provider answered 2xx with an array, else the
\* mapped records that have coordinates
adapterResult(a, outcome, data, now) ==
  IF outcome # "ok" THEN <<>>
  ELSE SelectSeq([k \in 1..Len(data) |-> adapterMap(a, data[k], now)], hasCoordinates)

insertByPriority(sorted, r) ==
  LET pos == Cardinality({i \in 1..Len(sorted) : sorted[i].priority >= r.priority})
  IN SubSeq(sorted, 1, pos) \o <<r>> \o SubSeq(sorted, pos + 1, Len(sorted))

\* the merged list left in concatenation order
sortByPrioritySkipped(rs) == rs

\* allIncidents.sort((a, b) => b.priority - a.priority)
sortByPriority(rs) ==
  LET acc[i \in 0..Len(rs)] ==
        IF i = 0 THEN <<>> ELSE insertByPriority(acc[i - 1], rs[i])
  IN acc[Len(rs)]

\* [...a1, ...a2, ...]
concatResults(order, outs) ==
  LET acc[i \in 0..Len(order)] ==
        IF i = 0 THEN <<>> ELSE acc[i - 1] \o outs[order[i]]
  IN acc[Len(order)]

\* the body of the answer: the branch's adapter results merged and sorted
aggregateIncidents(city, outs) == sortByPriority(concatResults(mergeOrder(city), outs))

AggIdle ==
  /\ reqCity = NoText /\ aggPhase = "idle"
  /\ adapterState = [a \in Adapters |-> "idle"]
  /\ adapterOut = [a \in Adapters |-> <<>>]
  /\ response = <<>>

\* a GET /api/incidents arrives; the branch's adapters are all called at once
Request ==
  /\ aggPhase = "idle"
  /\ \E q \in CityQueryPool :
       /\ reqCity' = q
       /\ adapterState' = [a \in Adapters |->
                             IF a \in branchAdapters(queryCity(q)) THEN "pending" ELSE "idle"]
  /\ aggPhase' = "fetching"
  /\ UNCHANGED <<adapterOut, response, pureVars, anVars, mapVars>>

\* one adapter's promise resolves
Settle(a) ==
  /\ aggPhase = "fetching" /\ adapterState[a] = "pending"
  /\ \E outcome \in Outcomes, n \in 0..MaxRecords, now \in NowPool :
       /\ adapterState' = [adapterState EXCEPT ![a] = IF outcome = "ok" THEN "ok" ELSE "failed"]
       /\ adapterOut' = [adapterOut EXCEPT
                           ![a] = adapterResult(a, outcome, ProviderFeed(a, n), now)]
  /\ UNCHANGED <<reqCity, aggPhase, response, pureVars, anVars, mapVars>>

\* Promise.all resolved: res.json(allIncidents)
Respond ==
  /\ aggPhase = "fetching"
  /\ \A a \in Adapters : adapterState[a] # "pending"
  /\ response' = [body |-> aggregateIncidents(queryCity(reqCity), adapterOut), status |-> 200]
  /\ aggPhase' = "responded"
  /\ UNCHANGED <<reqCity, adapterState, adapterOut, pureVars, anVars, mapVars>>

\* the request is over; the handler keeps nothing
Finish ==
  /\ aggPhase = "responded"
  /\ reqCity' = NoText /\ aggPhase' = "idle"
  /\ adapterState' = [a \in Adapters |-> "idle"]
  /\ adapterOut' = [a \in Adapters |-> <<>>]
  /\ response' = <<>>
  /\ UNCHANGED <<pureVars, anVars, mapVars>>

-----------------------------------------------------------------------------
(* POST /api/analyze-hotspots: the generative-AI path and its fallback *)

\* Replies of the AI service.  A reply is a text, one element per character,
\* except that the members of a JSON object are written as one element naming
\* the object: "result" a complete analysis, "partial" an object with a summary
\* only, "severe" a complete one with a threat level outside the three, "oops"
\* text that is no JSON.
AITextPool ==
  { <<"n","o">>,
    <<"}","{">>,
    <<"{","oops","}">>,
    <<"{","result","}">>,
    <<"a","{","result","}","b">>,
    <<"{","result","}","{","result","}">>,
    <<"{","partial","}">>,
    <<"{","severe","}">> }

AIReplyPool ==
  {[kind |-> "throws", text |-> <<>>]} \cup {[kind |-> "text", text |-> t] : t \in AITextPool}

NoReply == [kind |-> "none", text |-> <<>>]

\* text.match(/\{[\s\S]*\}/): from the first "{" that has a "}" after it to the
\* last "}"; <<>> is null
jsonMatch(text) ==
  LET opens == {i \in 1..Len(text) : text[i] = "{"}
      closes == {j \in 1..Len(text) : text[j] = "}"}
      first == CHOOSE i \in opens : \A k \in opens : i <= k
      last == CHOOSE j \in closes : \A k \in closes : k <= j
  IN IF opens = {} \/ closes = {} THEN <<>>
     ELSE IF first < last THEN SubSeq(text, first, last) ELSE <<>>

JsonObjects == {"result", "partial", "severe"}

\* whether JSON.parse(s) returns rather than throws
JSONparses(s) == Len(s) = 3 /\ s[1] = "{" /\ s[3] = "}" /\ s[2] \in JsonObjects

\* JSON.parse(s) of a text that parses
JSONparse(s) ==
  CASE s[2] = "result" ->
         [correlations |-> <<>>,
          hotspots |-> << [description |-> <<"A","I">>, intensity |-> Rat(80, 1),
                           lat |-> 4190, lng |-> 0 - 8760] >>,
          summary |-> [text |-> <<"A","I">>],
          threatLevel |-> "high"]
    [] s[2] = "partial" -> [summary |-> [text |-> <<"A","I">>]]
    [] s[2] = "severe" ->
         [correlations |-> <<>>, hotspots |-> <<>>,
          summary |-> [text |-> <<"A","I">>], threatLevel |-> "severe"]

\* a handler whose fallback forgets the request's data
analyzeReplyEmptyFallback(reply, incs, cams, now) ==
  LET jsonMatched == jsonMatch(reply.text)
  IN IF reply.kind = "text" /\ jsonMatched # <<>> /\ JSONparses(jsonMatched)
     THEN JSONparse(jsonMatched)
     ELSE performAlgorithmicAnalysis(<<>>, <<>>, now)

\* the body the handler answers with once the AI call has settled: the parsed
\* object if the reply matched and parsed, the algorithmic analysis if the call
\* threw, nothing matched or JSON.parse threw
analyzeReply(reply, incs, cams, now) ==
  LET jsonMatched == jsonMatch(reply.text)
  IN IF reply.kind = "text" /\ jsonMatched # <<>> /\ JSONparses(jsonMatched)
     THEN JSONparse(jsonMatched)
     ELSE performAlgorithmicAnalysis(incs, cams, now)

AnIdle ==
  /\ genAI = FALSE /\ anPhase = "starting"
  /\ anReq = [cameras |-> <<>>, incidents |-> <<>>]
  /\ aiReply = NoReply /\ anResponse = <<>>

\* the server starts, with or without GEMINI_API_KEY
StartServer ==
  /\ anPhase = "starting"
  /\ \E key \in BOOLEAN : genAI' = key
  /\ anPhase' = "idle"
  /\ UNCHANGED <<anReq, aiReply, anResponse, pureVars, aggVars, mapVars>>

\* a POST /api/analyze-hotspots arrives: without genAI it is answered at once by
\* the algorithm, with genAI the handler awaits generateContent
AnalyzeRequest ==
  /\ anPhase = "idle"
  /\ \E incs \in SeqsUpTo(IncidentPool, MaxIncidents),
        cams \in SeqsUpTo(CameraPool, MaxCameras), now \in NowPool :
       /\ anReq' = [cameras |-> cams, incidents |-> incs]
       /\ IF genAI
          THEN anPhase' = "awaitAI" /\ UNCHANGED anResponse
          ELSE /\ anPhase' = "responded"
               /\ anResponse' = [body |-> performAlgorithmicAnalysis(incs, cams, now),
                                 status |-> 200]
  /\ UNCHANGED <<genAI, aiReply, pureVars, aggVars, mapVars>>

\* generateContent settles; res.json(analysis) or the fallback
AIReturns ==
  /\ anPhase = "awaitAI"
  /\ \E reply \in AIReplyPool, now \in NowPool :
       /\ aiReply' = reply
       /\ anResponse' = [body |-> analyzeReply(reply, anReq.incidents, anReq.cameras, now),
                         status |-> 200]
  /\ anPhase' = "responded"
  /\ UNCHANGED <<genAI, anReq, pureVars, aggVars, mapVars>>

\* the request is over
AnalyzeEnd ==
  /\ anPhase = "responded"
  /\ anPhase' = "idle"
  /\ anReq' = [cameras |-> <<>>, incidents |-> <<>>]
  /\ aiReply' = NoReply /\ anResponse' = <<>>
  /\ UNCHANGED <<genAI, pureVars, aggVars, mapVars>>

-----------------------------------------------------------------------------
(* GET /api/cameras: the aggregate over the camera adapters *)

\* the predefined city codes of the city selector and the README
T_la == <<"l","a">>
T_dc == <<"d","c">>
PredefinedCities == {T_chicago, T_evansville, T_nyc, T_la, T_dc}

T_constructor == <<"c","o","n","s","t","r","u","c","t","o","r">>

\* the ?city= values of the requests, NoText being a request without the
\* parameter
CityCodePool == CityQueryPool \cup PredefinedCities \cup {T_constructor}

\* Math.floor(Math.random() * span): the k-th draw of the run with this seed
randomBelow(seed, k, span) == (seed * 37 + k * 61) % span

\* record k of a camera provider's feed; the first record of the NYC feed has
\* no coordinates
cameraProviderRecord(a, k) ==
  LET bare == k = 1 /\ a = "fetchNYCCameras"
  IN [id |-> k,
      latitude |-> IF bare THEN undefined ELSE 4180 + k,
      longitude |-> IF bare THEN undefined ELSE 0 - 8760 - k]

CameraFeed(a, n) == [k \in 1..n |-> cameraProviderRecord(a, k)]

\* fetchNYCCameras: [] unless the provider answered 2xx with an array
fetchNYCCameras(outcome, data, seed) ==
  IF outcome # "ok" THEN <<>>
  ELSE [k \in 1..Len(data) |->
          [id |-> <<"nyc", data[k].id>>,
           lat |-> OrElse(data[k].latitude, 4071),
           lng |-> OrElse(data[k].longitude, 0 - 7401),
           source |-> "NYC DOT",
           viewers |-> randomBelow(seed, k, 150)]]

\* fetchChicagoCameras
fetchChicagoCameras(outcome, data, seed) ==
  IF outcome # "ok" THEN <<>>
  ELSE [k \in 1..Len(data) |->
          [id |-> <<"chi", k - 1>>,
           lat |-> OrElse(data[k].latitude, 4188),
           lng |-> OrElse(data[k].longitude, 0 - 8763),
           source |-> "Chicago DOT",
           viewers |-> randomBelow(seed, 100 + k, 100)]]

caltransCameras ==
  << <<3782, -12236>>, <<3782, -12248>>, <<3394, -11841>>, <<3405, -11824>>,
     <<3674, -11979>>, <<3272, -11716>>, <<3780, -12227>>, <<3734, -12189>>,
     <<3402, -11849>>, <<3770, -12194>> >>

dcCameras ==
  << <<3889, -7703>>, <<3889, -7701>>, <<3890, -7704>>, <<3888, -7702>>,
     <<3890, -7703>>, <<3890, -7707>>, <<3891, -7704>> >>

internationalCams ==
  << <<5151, -13>>, <<5151, -13>>, <<5151, -8>>, <<3566, 13970>>,
     <<3569, 13970>>, <<5252, 1338>>, <<4887, 231>>, <<4887, 232>> >>

\* fetchCaliforniaCameras: viewers Math.floor(Math.random() * 80) + 20
fetchCaliforniaCameras(seed) ==
  [k \in 1..Len(caltransCameras) |->
     [id |-> <<"ca", k>>, lat |-> caltransCameras[k][1], lng |-> caltransCameras[k][2],
      source |-> "Caltrans", viewers |-> randomBelow(seed, 200 + k, 80) + 20]]

\* fetchDCCameras: viewers Math.floor(Math.random() * 60) + 10
fetchDCCameras(seed) ==
  [k \in 1..Len(dcCameras) |->
     [id |-> <<"dc", k>>, lat |-> dcCameras[k][1], lng |-> dcCameras[k][2],
      source |-> "DC DOT", viewers |-> randomBelow(seed, 300 + k, 60) + 10]]

\* fetchInternationalCameras: viewers Math.floor(Math.random() * 200) + 50
fetchInternationalCameras(seed) ==
  [k \in 1..Len(internationalCams) |->
     [id |-> <<"intl", k>>, lat |-> internationalCams[k][1],
      lng |-> internationalCams[k][2],
      source |-> "International", viewers |-> randomBelow(seed, 400 + k, 200) + 50]]

insertByViewers(sorted, c) ==
  LET pos == Cardinality({i \in 1..Len(sorted) : sorted[i].viewers >= c.viewers})
  IN SubSeq(sorted, 1, pos) \o <<c>> \o SubSeq(sorted, pos + 1, Len(sorted))

\* the sort, from the i-th camera on
RECURSIVE sortByViewersFrom(_, _, _)
sortByViewersFrom(sorted, cams, i) ==
  IF Len(sorted) >= 0 /\ i > Len(cams) THEN sorted
  ELSE sortByViewersFrom(insertByViewers(sorted, cams[i]), cams, i + 1)

\* allCameras.sort((a, b) => b.viewers - a.viewers)
sortByViewers(cams) == sortByViewersFrom(<<>>, cams, 1)

\* the answer of GET /api/cameras
getCameras(nyc, chicago, seed) ==
  [body |-> sortByViewers(
              fetchNYCCameras(nyc.outcome, CameraFeed("fetchNYCCameras", nyc.records), seed)
                \o fetchChicagoCameras(chicago.outcome,
                                       CameraFeed("fetchChicagoCameras", chicago.records), seed)
                \o fetchCaliforniaCameras(seed)
                \o fetchDCCameras(seed)
                \o fetchInternationalCameras(seed)),
   status |-> 200]

\* what the provider of a network adapter can do
ProviderAnswers == [outcome : Outcomes, records : 0..MaxRecords]

CallGetCameras ==
  /\ fn = "none"
  /\ \E nyc \in ProviderAnswers, chicago \in ProviderAnswers, seed \in SeedPool :
       Call("GET /api/cameras", [chicago |-> chicago, nyc |-> nyc, seed |-> seed],
            getCameras(nyc, chicago, seed))

\* the answer of GET /api/incidents?city=q when the adapters in `failed` get
\* no usable answer and the others get MaxRecords records
getIncidents(q, failed, now) ==
  [body |-> aggregateIncidents(
              queryCity(q),
              [a \in Adapters |->
                 adapterResult(a, IF a \in failed THEN "throws" ELSE "ok",
                               ProviderFeed(a, MaxRecords), now)]),
   status |-> 200]

\* how many adapters of one request fail at most
MaxFailed == 2

FailedSets == {F \in SUBSET Adapters : Cardinality(F) <= MaxFailed}

CallGetIncidents ==
  /\ fn = "none"
  /\ \E q \in CityCodePool, failed \in FailedSets,
        now \in NowPool :
       Call("GET /api/incidents", [city |-> q, failed |-> failed, now |-> now],
            getIncidents(q, failed, now))

-----------------------------------------------------------------------------
(* GET /api/radio-streams *)

\* allStreams: id, city, and the span and base of listeners
\* (Math.floor(Math.random() * span) + base)
streamTable ==
  << <<"chicago-pd-zone1", T_chicago, 400, 150>>,
     <<"chicago-pd-zone2", T_chicago, 350, 100>>,
     <<"chicago-pd-zone5", T_chicago, 300, 80>>,
     <<"chicago-pd-zone6", T_chicago, 280, 90>>,
     <<"chicago-pd-zone10", T_chicago, 320, 110>>,
     <<"chicago-fire-main", T_chicago, 350, 120>>,
     <<"chicago-fire-englewood", T_chicago, 200, 60>>,
     <<"chicago-ems", T_chicago, 250, 70>>,
     <<"cook-county-sheriff", T_chicago, 200, 50>>,
     <<"illinois-state-police", T_chicago, 180, 40>>,
     <<"nypd-citywide", T_nyc, 500, 100>>,
     <<"nypd-manhattan", T_nyc, 300, 50>>,
     <<"fdny-citywide", T_nyc, 400, 80>>,
     <<"la-county-fire", T_la, 250, 40>>,
     <<"lapd-dispatch", T_la, 300, 70>> >>

allStreams(seed) ==
  [k \in 1..Len(streamTable) |->
     [city |-> streamTable[k][2], id |-> streamTable[k][1],
      listeners |-> randomBelow(seed, k, streamTable[k][3]) + streamTable[k][4]]]

\* a string used as a condition: undefined and '' are falsy
TruthyText(t) == t # NoText /\ t # <<>>

\* a handler that filters for chicago only and answers every other request
\* with all streams
getRadioStreamsChicagoOrAll(q, seed) ==
  LET ofChicago(st) == st.city = T_chicago
  IN [body |-> IF queryCity(q) = T_chicago THEN SelectSeq(allStreams(seed), ofChicago)
               ELSE allStreams(seed),
      status |-> 200]

\* the answer of GET /api/radio-streams?city=q
getRadioStreams(q, seed) ==
  LET city == queryCity(q)
      ofCity(st) == st.city = city
      ofChicago(st) == st.city = T_chicago
  IN [body |-> IF city = T_chicago THEN SelectSeq(allStreams(seed), ofChicago)
               ELSE IF TruthyText(city) THEN SelectSeq(allStreams(seed), ofCity)
               ELSE allStreams(seed),
      status |-> 200]

CallGetRadioStreams ==
  /\ fn = "none"
  /\ \E q \in CityCodePool, seed \in SeedPool :
       Call("GET /api/radio-streams", [city |-> q, seed |-> seed],
            getRadioStreams(q, seed))

-----------------------------------------------------------------------------
(* GET /api/news *)

NoQuery == "undefined"

\* CITY_GDELT_QUERIES[city]: the table's own keys, and the properties every
\* object inherits (constructor is the one with a lower-case name among the
\* codes tried)
CITY_GDELT_QUERIES(city) ==
  CASE city = T_chicago -> "Chicago OR Illinois"
    [] city = T_nyc -> "New York OR Manhattan OR Brooklyn OR Queens OR Bronx"
    [] city = T_la -> "Los Angeles OR California OR LA"
    [] city = T_dc -> "Washington DC OR Capitol OR Congress"
    [] city = T_evansville -> "Evansville OR Indiana"
    [] city = T_constructor -> "function Object() { [native code] }"
    [] OTHER -> NoQuery

DefaultQuery == "Chicago OR New York OR Los Angeles OR Washington OR Illinois OR California"

\* let locationQuery = ...
locationQuery(city) ==
  IF TruthyText(city) /\ CITY_GDELT_QUERIES(city) # NoQuery
  THEN CITY_GDELT_QUERIES(city)
  ELSE DefaultQuery

T_cnn_com == <<"C","N","N",".","c","o","m">>
T_lemonde_fr == <<"l","e","m","o","n","d","e",".","f","r">>
T_United_States == <<"U","n","i","t","e","d"," ","S","t","a","t","e","s">>
T_France == <<"F","r","a","n","c","e">>

\* String.prototype.endsWith
endsWith(text, suffix) ==
  Len(text) >= Len(suffix) /\ SubSeq(text, Len(text) - Len(suffix) + 1, Len(text)) = suffix

usSuffixes == << <<".","c","o","m">>, <<".","o","r","g">>, <<".","g","o","v">> >>

usNames ==
  << <<"c","h","i","c","a","g","o">>,
     <<"n","y","c">>,
     <<"n","y","t","i","m","e","s">>,
     <<"c","n","n">>,
     <<"a","b","c">>,
     <<"n","b","c">>,
     <<"c","b","s">>,
     <<"f","o","x">> >>

\* article k of what GDELT answers to a query: the second article is foreign,
\* the third has no seendate
gdeltArticle(query, k) ==
  [domain |-> IF k = 2 THEN T_lemonde_fr ELSE T_cnn_com,
   query |-> query,
   seendate |-> IF k = 3 THEN undefined ELSE 40 * HourMs + k,
   sourcecountry |-> IF k = 2 THEN T_France ELSE IF k = 1 THEN T_United_States ELSE NoText]

\* how many US articles make the adapter drop the others
UsArticlesOver == 5

NewsCap == 20

\* the sizes of the article lists GDELT answers with
ArticleCounts == {0, MaxRecords, UsArticlesOver + 2}

\* what a call to GDELT can come to: a JSON object with an articles array, a
\* non-2xx answer, an abort or rejected fetch or unparseable JSON, a text that
\* is not JSON, a JSON value without an articles array
NewsOutcomes == {"ok", "status", "throws", "notJson", "noArticles"}

\* the filter to US sources
isUsArticle(article) ==
  LET domain == toLowerCase(OrEmpty(article.domain))
      country == toLowerCase(OrEmpty(article.sourcecountry))
  IN \/ includes(country, <<"u","n","i","t","e","d"," ","s","t","a","t","e","s">>)
     \/ \E i \in 1..Len(usSuffixes) : endsWith(domain, usSuffixes[i])
     \/ someIn1(usNames, domain)

\* fetchGDELTNews(city) when GDELT answers the query with n articles
fetchGDELTNews(city, outcome, n, now) ==
  IF outcome # "ok" THEN <<>>
  ELSE LET articles == [k \in 1..n |-> gdeltArticle(locationQuery(city), k)]
           usArticles == SelectSeq(articles, isUsArticle)
           articlesToUse == IF Len(usArticles) > UsArticlesOver THEN usArticles ELSE articles
           top == slice0(articlesToUse, NewsCap)
       IN [k \in 1..Len(top) |->
             [id |-> k - 1, source |-> top[k].domain,
              time |-> OrElse(top[k].seendate, now), title |-> top[k].query]]

insertByTime(sorted, a) ==
  LET pos == Cardinality({i \in 1..Len(sorted) : sorted[i].time >= a.time})
  IN SubSeq(sorted, 1, pos) \o <<a>> \o SubSeq(sorted, pos + 1, Len(sorted))

\* gdeltNews.sort((a, b) => new Date(b.time) - new Date(a.time))
sortByTime(news) ==
  LET acc[i \in 0..Len(news)] ==
        IF i = 0 THEN <<>> ELSE insertByTime(acc[i - 1], news[i])
  IN acc[Len(news)]

\* the answer of GET /api/news?city=q
getNews(q, outcome, n, now) ==
  [body |-> slice0(sortByTime(fetchGDELTNews(queryCity(q), outcome, n, now)), NewsCap),
   status |-> 200]

CallGetNews ==
  /\ fn = "none"
  /\ \E q \in CityCodePool, outcome \in NewsOutcomes, n \in ArticleCounts, now \in NowPool :
       Call("GET /api/news",
            [articles |-> n, city |-> q, now |-> now, outcome |-> outcome],
            getNews(q, outcome, n, now))

-----------------------------------------------------------------------------
(* The client data service (dataService.ts) *)

\* how an operation's promise settles, with the requests it made in order
Resolved(v, reqs) == [requests |-> reqs, settled |-> "resolved", value |-> v]

Rejected(reqs) == [requests |-> reqs, settled |-> "rejected", value |-> <<>>]

\* what a request to the backend can come to: a 2xx answer with the endpoint's
\* JSON, a non-2xx answer, a rejected fetch, a body that is not JSON, and (where
\* the operation maps over the body) a JSON body that is no array
BackendOutcomes == {"ok", "status", "throws", "notJson"}

BackendOutcomesMapped == BackendOutcomes \cup {"notArray"}

\* record k of the feed a direct fallback reads; the first record has no
\* coordinates
fallbackRecord(k) ==
  [id |-> k,
   latitude |-> IF k = 1 THEN undefined ELSE 4180 + k,
   longitude |-> IF k = 1 THEN undefined ELSE 0 - 8760 - k,
   status |-> IF k = 1 THEN "Open" ELSE "Closed",
   text |-> IF k = 1 THEN T_HOMICIDE ELSE T_Theft]

FallbackFeed(n) == [k \in 1..n |-> fallbackRecord(k)]

\* a fallback whose failure is not caught
fetchNYCCamerasFallbackUncaught(provider, seed, reqs) ==
  IF provider.outcome # "ok" THEN Rejected(Append(reqs, "NYC DOT"))
  ELSE Resolved(<<>>, Append(reqs, "NYC DOT"))

\* fetchNYCCamerasFallback: parseFloat without a default, no filter; any
\* failure is caught and gives []
fetchNYCCamerasFallback(provider, seed, reqs) ==
  IF provider.outcome # "ok" THEN Resolved(<<>>, Append(reqs, "NYC DOT"))
  ELSE Resolved([k \in 1..provider.records |->
                   [id |-> <<"cam", FallbackFeed(provider.records)[k].id>>,
                    lat |-> FallbackFeed(provider.records)[k].latitude,
                    lng |-> FallbackFeed(provider.records)[k].longitude,
                    source |-> "NYC DOT",
                    viewers |-> randomBelow(seed, k, 80)]],
                Append(reqs, "NYC DOT"))

\* fetchCameras(city): the backend ignores the city
fetchCameras(city, backend, nyc, chicago, provider, seed) ==
  IF backend = "ok" THEN Resolved(getCameras(nyc, chicago, seed).body, <<"backend">>)
  ELSE fetchNYCCamerasFallback(provider, seed, <<"backend">>)

\* fetchChicagoFallback: default coordinates, then filter(i => i.lat && i.lng)
fetchChicagoFallback(provider, reqs) ==
  IF provider.outcome # "ok" THEN Resolved(<<>>, Append(reqs, "Chicago PD"))
  ELSE Resolved(
         SelectSeq([k \in 1..provider.records |->
                      [id |-> FallbackFeed(provider.records)[k].id,
                       lat |-> OrElse(FallbackFeed(provider.records)[k].latitude, 4188),
                       lng |-> OrElse(FallbackFeed(provider.records)[k].longitude, 0 - 8763),
                       priority |-> clientCalculateChicagoCrimePriority(
                                      [description |-> NoText,
                                       primary_type |-> FallbackFeed(provider.records)[k].text]),
                       source |-> "Chicago PD"]],
                   hasCoordinates),
         Append(reqs, "Chicago PD"))

\* fetchNYC311Fallback: default coordinates, no filter
fetchNYC311Fallback(provider, reqs) ==
  IF provider.outcome # "ok" THEN Resolved(<<>>, Append(reqs, "NYC 311"))
  ELSE Resolved(
         [k \in 1..provider.records |->
            [id |-> FallbackFeed(provider.records)[k].id,
             lat |-> OrElse(FallbackFeed(provider.records)[k].latitude, 4071),
             lng |-> OrElse(FallbackFeed(provider.records)[k].longitude, 0 - 7401),
             priority |-> clientCalculatePriority(
                            [complaint_type |-> FallbackFeed(provider.records)[k].text,
                             descriptor |-> NoText,
                             status |-> FallbackFeed(provider.records)[k].status]),
             source |-> "NYC 311"]],
         Append(reqs, "NYC 311"))

\* fetchIncidents(city): the fields modelled pass through the map over the
\* backend's records unchanged ({...item, time, category})
fetchIncidents(city, backend, provider, now) ==
  IF backend = "ok" THEN Resolved(getIncidents(city, {}, now).body, <<"backend">>)
  ELSE IF city = T_chicago THEN fetchChicagoFallback(provider, <<"backend">>)
  ELSE fetchNYC311Fallback(provider, <<"backend">>)

\* fetchRadioStreams(city)
fetchRadioStreams(city, backend, seed) ==
  IF backend = "ok" THEN Resolved(getRadioStreams(city, seed).body, <<"backend">>)
  ELSE Resolved(<<>>, <<"backend">>)

MinuteMs == 60000

\* formatTimeAgo(dateString) at time now
formatTimeAgo(t, now) ==
  LET diffMins == (now - t) \div MinuteMs
      diffHours == diffMins \div 60
  IN IF ~ Truthy(t) THEN [n |-> 0, unit |-> "Unknown"]
     ELSE IF diffMins < 1 THEN [n |-> 0, unit |-> "Just now"]
     ELSE IF diffMins < 60 THEN [n |-> diffMins, unit |-> "m ago"]
     ELSE IF diffHours < 24 THEN [n |-> diffHours, unit |-> "h ago"]
     ELSE [n |-> diffHours \div 24, unit |-> "d ago"]

\* fetchNews(): no city is passed
fetchNews(backend, outcome, n, now) ==
  IF backend = "ok"
  THEN Resolved([k \in 1..Len(getNews(NoText, outcome, n, now).body) |->
                   [getNews(NoText, outcome, n, now).body[k] EXCEPT
                      !.time = formatTimeAgo(@, now)]],
                <<"backend">>)
  ELSE Resolved(<<>>, <<"backend">>)

\* analyzeHotspots(incidents, cameras, news)
analyzeHotspots(incs, cams, backend, now) ==
  IF backend = "ok" THEN Resolved(performAlgorithmicAnalysis(incs, cams, now), <<"backend">>)
  ELSE Resolved(performLocalAnalysis(incs, cams, now), <<"backend">>)

\* the city argument of the client calls: a predefined code or none
ClientCityPool == PredefinedCities \cup {NoText}

CallFetchCameras ==
  /\ fn = "none"
  /\ \E city \in ClientCityPool, backend \in BackendOutcomes,
        provider \in ProviderAnswers, seed \in SeedPool :
       Call("fetchCameras",
            [backend |-> backend, city |-> city, fallback |-> provider, seed |-> seed],
            fetchCameras(city, backend, [outcome |-> "ok", records |-> MaxRecords],
                         [outcome |-> "ok", records |-> MaxRecords], provider, seed))

CallFetchIncidents ==
  /\ fn = "none"
  /\ \E city \in ClientCityPool, backend \in BackendOutcomesMapped,
        provider \in ProviderAnswers, now \in NowPool :
       Call("fetchIncidents",
            [backend |-> backend, city |-> city, fallback |-> provider, now |-> now],
            fetchIncidents(city, backend, provider, now))

CallFetchRadioStreams ==
  /\ fn = "none"
  /\ \E city \in ClientCityPool, backend \in BackendOutcomes, seed \in SeedPool :
       Call("fetchRadioStreams", [backend |-> backend, city |-> city, seed |-> seed],
            fetchRadioStreams(city, backend, seed))

CallFetchNews ==
  /\ fn = "none"
  /\ \E backend \in BackendOutcomesMapped, outcome \in NewsOutcomes, n \in ArticleCounts,
        now \in NowPool :
       Call("fetchNews",
            [articles |-> n, backend |-> backend, now |-> now, outcome |-> outcome],
            fetchNews(backend, outcome, n, now))

CallAnalyzeHotspots ==
  /\ fn = "none"
  /\ \E incs \in SeqsUpTo(IncidentPool, 1), cams \in SeqsUpTo(CameraPool, MaxCameras),
        backend \in BackendOutcomes, now \in NowPool :
       Call("analyzeHotspots",
            [backend |-> backend, cameras |-> cams, incidents |-> incs, now |-> now],
            analyzeHotspots(incs, cams, backend, now))

-----------------------------------------------------------------------------
(* The severity labels of the views *)

\* FloatingPanels lists the incidents with priority >= 60
PanelListsFrom == 60

\* the label of an incident in the high-priority list of FloatingPanels
floatingPanelLabel(priority) ==
  IF priority < PanelListsFrom THEN "not listed"
  ELSE IF priority >= 80 THEN "CRITICAL"
  ELSE IF priority >= 70 THEN "HIGH"
  ELSE "MEDIUM"

\* the label of the same incident in AlertModal
alertModalLabel(priority) ==
  IF priority >= 80 THEN "CRITICAL"
  ELSE IF priority >= 60 THEN "HIGH"
  ELSE "MEDIUM"

\* README, Incident Priority Colors
readmeBand(priority) ==
  IF priority >= 80 THEN "CRITICAL"
  ELSE IF priority >= 60 THEN "HIGH"
  ELSE IF priority >= 40 THEN "MEDIUM"
  ELSE "LOW"

\* the priorities an incident can have
PriorityPool == 0..100

\* an incident is rendered in the panel and, once clicked, in the modal
CallRenderIncident ==
  /\ fn = "none"
  /\ \E priority \in PriorityPool :
       Call("render incident", [priority |-> priority],
            [modal |-> alertModalLabel(priority), panel |-> floatingPanelLabel(priority)])

-----------------------------------------------------------------------------

-----------------------------------------------------------------------------
(* MapContainer: overlapping loads of the map's data *)

\* how many loads one run of the page starts at most
MaxLoads == 2

\* the options of the city selector the user picks among
CityChoicePool == {"chicago", "evansville"}

Layers == {"all", "hotspots", "incidents", "cameras"}

\* the selector's value as the city code fetchIncidents(selectedCity) passes on
cityCode(city) == IF city = "evansville" THEN T_evansville ELSE T_chicago

\* how many incidents fetchIncidents(city) resolves with, over every outcome of
\* the backend request and of the direct fallback; it never rejects
FetchedCounts ==
  [city \in CityChoicePool |->
     {Len(fetchIncidents(cityCode(city), backend, provider, now).value) :
        backend \in BackendOutcomesMapped, provider \in ProviderAnswers, now \in NowPool}]

\* useState([]) and useState(null): the data of no load
NoIncidents == [city |-> "none", count |-> 0, load |-> 0]
NoCameras == [load |-> 0]
NoHotspots == [defined |-> TRUE, load |-> 0]
NoAnalysis == [load |-> 0]
NoMarkers == [cameras |-> 0, hotspots |-> 0, incidents |-> 0]

\* a load that has finished: its closure is gone
Done == [city |-> "none", layer |-> "none", phase |-> "done"]

\* updateMapMarkers(incidentData, cameraData, hotspotData) under the filter
\* `layer`, each argument named by the load it came from: both layer groups are
\* cleared, then the groups the filter admits are drawn; hotspotData.forEach
\* throws on an analysis without hotspots, leaving the map cleared
updateMapMarkers(layer, incLoad, camLoad, hot) ==
  IF layer \in {"hotspots", "all"} /\ ~ hot.defined THEN NoMarkers
  ELSE [cameras |-> IF layer \in {"cameras", "all"} THEN camLoad ELSE 0,
        hotspots |-> IF layer \in {"hotspots", "all"} THEN hot.load ELSE 0,
        incidents |-> IF layer \in {"incidents", "all"} THEN incLoad ELSE 0]

\* a fetch stage that drops a response older than the data on display
storeFetchedIfNewer(k, cur, new) == IF k < cur.load THEN cur ELSE new

\* a fetch stage that only fills an empty state
storeFetchedOnce(k, cur, new) == IF cur.load = 0 THEN new ELSE cur

\* setIncidents(incidentData), setCameras(cameraData) of load k: the state is
\* overwritten whatever it held
storeFetched(k, cur, new) == new

\* a load that ends without a finally-clause: the indicator is left as it is
loadingLeftOn(ls, k) == TRUE

\* a finally-clause that keeps the indicator while another load is pending
loadingWhileOthersPending(ls, k) == \E j \in 1..Len(ls) : j # k /\ ls[j].phase # "done"

\* finally { setIsLoading(false) } of load k: the indicator is cleared whatever
\* the other loads are doing
loadingAfterFinish(ls, k) == FALSE

MapIdle ==
  /\ mounted = TRUE /\ mapReady = FALSE
  /\ loads = <<>> /\ lastFetched = 0 /\ lastFinished = 0
  /\ incidents = NoIncidents /\ cameras = NoCameras
  /\ hotspots = NoHotspots /\ analysis = NoAnalysis
  /\ isLoading = TRUE /\ markers = NoMarkers
  /\ selectedCity = "chicago" /\ showLayer = "all"

\* loadData() up to its first await, called from a render whose selectedCity
\* and showLayer were `city` and `layer`
StartLoad(city, layer) ==
  /\ Len(loads) < MaxLoads
  /\ loads' = Append(loads, [city |-> city, layer |-> layer, phase |-> "fetching"])
  /\ isLoading' = TRUE

\* the Leaflet script has loaded: the map is created and the first load starts
LeafletLoaded ==
  /\ mounted /\ ~ mapReady
  /\ mapReady' = TRUE
  /\ StartLoad(selectedCity, showLayer)
  /\ UNCHANGED <<mounted, lastFetched, lastFinished, incidents, cameras, hotspots, analysis,
                 markers, selectedCity, showLayer, pureVars, aggVars, anVars>>

\* setInterval(loadData, 60000) fires; loadData is the one of the first render
TimerTick ==
  /\ mounted
  /\ StartLoad("chicago", "all")
  /\ UNCHANGED <<mounted, mapReady, lastFetched, lastFinished, incidents, cameras, hotspots,
                 analysis, markers, selectedCity, showLayer, pureVars, aggVars, anVars>>

\* the refresh button, disabled while isLoading
RefreshClick ==
  /\ mounted /\ ~ isLoading
  /\ StartLoad(selectedCity, showLayer)
  /\ UNCHANGED <<mounted, mapReady, lastFetched, lastFinished, incidents, cameras, hotspots,
                 analysis, markers, selectedCity, showLayer, pureVars, aggVars, anVars>>

\* handleCityChange(city): setSelectedCity(city), then loadData() of the render
\* the handler belongs to, if the map exists
HandleCityChange ==
  /\ mounted
  /\ \E city \in CityChoicePool \ {selectedCity} :
       /\ selectedCity' = city
       /\ IF mapReady
          THEN StartLoad(selectedCity, showLayer)
          ELSE UNCHANGED <<loads, isLoading>>
  /\ UNCHANGED <<mounted, mapReady, lastFetched, lastFinished, incidents, cameras, hotspots,
                 analysis, markers, showLayer, pureVars, aggVars, anVars>>

\* a layer button: setShowLayer(layer), and the effect on [showLayer] redraws
\* from the state if there is a map and an incident
SetShowLayer ==
  /\ mounted
  /\ \E layer \in Layers \ {showLayer} :
       /\ showLayer' = layer
       /\ markers' = IF mapReady /\ incidents.count > 0
                     THEN updateMapMarkers(layer, incidents.load, cameras.load, hotspots)
                     ELSE markers
  /\ UNCHANGED <<mounted, mapReady, loads, lastFetched, lastFinished, incidents, cameras,
                 hotspots, analysis, isLoading, selectedCity, pureVars, aggVars, anVars>>

\* the Promise.all of load k resolves: setIncidents, setCameras, then the
\* analysis is requested
FetchResolves(k) ==
  /\ k \in 1..Len(loads) /\ loads[k].phase = "fetching"
  /\ loads' = [loads EXCEPT ![k].phase = "analyzing"]
  /\ lastFetched' = k
  /\ IF mounted
     THEN \E ni \in FetchedCounts[loads[k].city] :
            /\ incidents' = storeFetched(k, incidents,
                                         [city |-> loads[k].city, count |-> ni, load |-> k])
            /\ cameras' = storeFetched(k, cameras, [load |-> k])
     ELSE UNCHANGED <<incidents, cameras>>
  /\ UNCHANGED <<mounted, mapReady, lastFinished, hotspots, analysis, isLoading, markers,
                 selectedCity, showLayer, pureVars, aggVars, anVars>>

\* analyzeHotspots of load k resolves with an analysis that has hotspots or has
\* none: setAnalysis, setHotspots, updateMapMarkers with the load's own data,
\* setIsLoading(false); rendering hotspots.length of an analysis without
\* hotspots throws and takes the component down with its map and timer
AnalysisResolves(k) ==
  /\ k \in 1..Len(loads) /\ loads[k].phase = "analyzing"
  /\ loads' = [loads EXCEPT ![k] = Done]
  /\ lastFinished' = k
  /\ IF mounted
     THEN \E ok \in BOOLEAN :
            LET hot == [defined |-> ok, load |-> k]
            IN /\ analysis' = [load |-> k]
               /\ hotspots' = hot
               /\ markers' = IF ~ ok THEN NoMarkers
                             ELSE IF mapReady
                             THEN updateMapMarkers(loads[k].layer, k, k, hot)
                             ELSE markers
               /\ isLoading' = loadingAfterFinish(loads, k)
               /\ mounted' = ok
               /\ mapReady' = (mapReady /\ ok)
     ELSE UNCHANGED <<analysis, hotspots, markers, isLoading, mounted, mapReady>>
  /\ UNCHANGED <<lastFetched, incidents, cameras, selectedCity, showLayer,
                 pureVars, aggVars, anVars>>

-----------------------------------------------------------------------------
(* Initial state and the specifications *)

Init == PureIdle /\ AggIdle /\ AnIdle /\ MapIdle

\* the pure calls
Next ==
  \/ CallCalculatePriority
  \/ CallCalculateChicagoCrimePriority
  \/ CallCalculateEvansvilleCrimePriority
  \/ CallCalculateCrashPriority
  \/ CallClientCalculateChicagoCrimePriority
  \/ CallClientCalculatePriority
  \/ CallPerformAlgorithmicAnalysis
  \/ CallPerformLocalAnalysis
  \/ CallGetCameras
  \/ CallGetIncidents
  \/ CallGetRadioStreams
  \/ CallGetNews
  \/ CallFetchCameras
  \/ CallFetchIncidents
  \/ CallFetchRadioStreams
  \/ CallFetchNews
  \/ CallAnalyzeHotspots
  \/ CallRenderIncident
  \/ Return

Spec == Init /\ [][Next]_vars

\* GET /api/incidents
NextIncidents ==
  \/ Request
  \/ \E a \in Adapters : Settle(a)
  \/ Respond
  \/ Finish

SpecIncidents == Init /\ [][NextIncidents]_vars

\* POST /api/analyze-hotspots
NextAnalyze ==
  \/ StartServer
  \/ AnalyzeRequest
  \/ AIReturns
  \/ AnalyzeEnd

SpecAnalyze == Init /\ [][NextAnalyze]_vars

\* MapContainer
NextMap ==
  \/ LeafletLoaded
  \/ TimerTick
  \/ RefreshClick
  \/ HandleCityChange
  \/ SetShowLayer
  \/ \E k \in 1..MaxLoads : FetchResolves(k)
  \/ \E k \in 1..MaxLoads : AnalysisResolves(k)

SpecMap == Init /\ [][NextMap]_vars

\* MapContainer when every network request eventually settles: a load that is
\* fetching or analyzing is not left waiting for ever
SpecMapLive ==
  /\ SpecMap
  /\ \A k \in 1..MaxLoads : WF_vars(FetchResolves(k)) /\ WF_vars(AnalysisResolves(k))

-----------------------------------------------------------------------------
(* Properties of the pure calls, checked under Spec *)

IsServerAnalysis == fn = "performAlgorithmicAnalysis"

IsAnalysis == fn \in {"performAlgorithmicAnalysis", "performLocalAnalysis"}

IsScorer ==
  fn \in {"calculatePriority", "calculateChicagoCrimePriority",
          "calculateEvansvilleCrimePriority", "calculateCrashPriority",
          "clientCalculateChicagoCrimePriority", "clientCalculatePriority"}

\* the call is a server analysis of exactly one incident that has coordinates
\* and a priority, and of no camera
OneIncidentNoCamera ==
  /\ IsServerAnalysis
  /\ Len(arg.incidents) = 1 /\ Len(arg.cameras) = 0
  /\ Truthy(arg.incidents[1].lat) /\ Truthy(arg.incidents[1].lng)
  /\ arg.incidents[1].priority # undefined

\* min(100, p / 2)
HalfClamped(p) == IF p > 200 THEN Rat(100, 1) ELSE Rat(p, 2)

\* C5 as claimed: one incident with coordinates and priority p and no cameras
\* gives exactly one hotspot, placed at the coordinates rounded to one decimal,
\* with incidentCount 1, cameraCount 0 and intensity min(100, p/2).
C5_HotspotAtGridCell ==
  OneIncidentNoCamera =>
    LET inc == arg.incidents[1]
    IN /\ Len(out.hotspots) = 1
       /\ out.hotspots[1].lat = roundTenth(inc.lat) * 10
       /\ out.hotspots[1].lng = roundTenth(inc.lng) * 10
       /\ out.hotspots[1].incidentCount = 1
       /\ out.hotspots[1].cameraCount = 0
       /\ RatEq(out.hotspots[1].intensity, HalfClamped(inc.priority))

\* C5 amended: the incident forms one cluster keyed by its coordinates rounded to
\* one decimal; when its priority p exceeds 60 the result is exactly one hotspot
\* that carries the incident's own, unrounded coordinates, incidentCount 1,
\* cameraCount 0 and intensity min(100, p/2); when p <= 60 (a priority of 0
\* counting as 50) the cluster is below the threshold and no hotspot is returned.
C5_HotspotAtIncident ==
  OneIncidentNoCamera =>
    LET inc == arg.incidents[1]
        p   == inc.priority
        cs  == serverClusters(arg.incidents, arg.cameras)
    IN /\ Len(cs) = 1
       /\ cs[1].key = <<roundTenth(inc.lat), roundTenth(inc.lng)>>
       /\ IF p > 60
          THEN /\ Len(out.hotspots) = 1
               /\ out.hotspots[1].lat = inc.lat
               /\ out.hotspots[1].lng = inc.lng
               /\ out.hotspots[1].incidentCount = 1
               /\ out.hotspots[1].cameraCount = 0
               /\ RatEq(out.hotspots[1].intensity, HalfClamped(p))
          ELSE out.hotspots = <<>>

\* C5 witness: the incident at (41.87,-87.63) with priority 95 was analysed and
\* gave one hotspot of intensity 47.5 in cell (41.9,-87.6)
C5_Witness ==
  /\ OneIncidentNoCamera
  /\ arg.incidents[1].lat = 4187 /\ arg.incidents[1].lng = -8763
  /\ arg.incidents[1].priority = 95
  /\ clusterKey(arg.incidents[1]) = <<419, -876>>
  /\ Len(out.hotspots) = 1
  /\ RatEq(out.hotspots[1].intensity, Rat(475, 10))

\* C6: with zero incidents and zero cameras both clusterers return no hotspots,
\* no correlations, threat level low and a summary that reports 0 hotspots.
C6_EmptyInput ==
  (IsAnalysis /\ arg.incidents = <<>> /\ arg.cameras = <<>>) =>
    /\ out.hotspots = <<>>
    /\ out.correlations = <<>>
    /\ out.threatLevel = "low"
    /\ out.summary.hotspots = 0

\* C6 witness: the server clusterer has run on the empty input
C6_Witness ==
  /\ IsServerAnalysis /\ arg.incidents = <<>> /\ arg.cameras = <<>>
  /\ out.summary.hotspots = 0

\* C7: every priority a scorer returns and every intensity of a returned hotspot
\* lies in [0, 100], whatever the priorities and viewer counts of the input.
C7_Clamped ==
  /\ IsScorer => (out >= 0 /\ out <= 100)
  /\ IsAnalysis =>
       \A i \in 1..Len(out.hotspots) :
         /\ out.hotspots[i].intensity.den > 0
         /\ out.hotspots[i].intensity.num >= 0
         /\ out.hotspots[i].intensity.num <= 100 * out.hotspots[i].intensity.den

\* C7 witness: an input with a priority outside [0,100] or a viewer count above
\* 100 was clustered and a hotspot was returned at the clamp
C7_Witness ==
  /\ IsServerAnalysis
  /\ \/ \E i \in 1..Len(arg.incidents) :
          arg.incidents[i].priority # undefined /\ arg.incidents[i].priority < 0
     \/ \E i \in 1..Len(arg.cameras) : Gt(arg.cameras[i].viewers, 200)
  /\ \E i \in 1..Len(out.hotspots) : RatEq(out.hotspots[i].intensity, Rat(100, 1))

\* the scored record has neither category nor description text
EmptyTextCall ==
  \/ /\ fn = "calculatePriority"
     /\ OrEmpty(arg.complaint_type) = <<>> /\ OrEmpty(arg.descriptor) = <<>>
  \/ /\ fn = "calculateChicagoCrimePriority"
     /\ OrEmpty(arg.crime.primary_type) = <<>> /\ OrEmpty(arg.crime.description) = <<>>
  \/ /\ fn = "calculateEvansvilleCrimePriority"
     /\ OrEmpty(arg.Map_Crime) = <<>> /\ OrEmpty(arg.chrgdesc) = <<>>

\* the record earns the status or recency bonus
EarnsBonus ==
  \/ fn = "calculatePriority" /\ arg.status = "Open"
  \/ /\ fn = "calculateChicagoCrimePriority"
     /\ arg.crime.date # undefined
     /\ arg.crime.date > arg.now - HourMs

\* C8 as claimed: a record with empty category and description scores exactly 50
\* under the three server scorers, whatever its status and timestamp.
C8_ExactlyBaseline == EmptyTextCall => out = 50

\* C8 amended: such a record never scores below the baseline 50; it scores
\* exactly 50 unless its status is 'Open' (calculatePriority) or its date lies
\* within the last hour (calculateChicagoCrimePriority), and then exactly 60.
C8_BaselinePlusBonus ==
  EmptyTextCall => out = (IF EarnsBonus THEN 60 ELSE 50)

\* C8 witness: an empty Chicago crime dated within the last hour was scored 60
C8_Witness ==
  /\ EmptyTextCall /\ fn = "calculateChicagoCrimePriority" /\ EarnsBonus
  /\ out = 60

homicide == <<"h","o","m","i","c","i","d","e">>

\* the scored record's category contains "homicide" in any letter case
HomicideCall ==
  \/ /\ fn = "calculateChicagoCrimePriority"
     /\ includes(toLowerCase(OrEmpty(arg.crime.primary_type)), homicide)
  \/ /\ fn = "calculateEvansvilleCrimePriority"
     /\ includes(toLowerCase(OrEmpty(arg.Map_Crime)), homicide)
  \/ /\ fn = "clientCalculateChicagoCrimePriority"
     /\ includes(toLowerCase(OrEmpty(arg.primary_type)), homicide)

\* C9: a record whose category contains "homicide" scores at least 95 under the
\* crime scorers, whatever its description and date.
C9_HomicideCritical == HomicideCall => out >= 95

\* C9 witness: a HOMICIDE record whose description names a medium-tier crime
C9_Witness ==
  /\ fn = "calculateChicagoCrimePriority"
  /\ arg.crime.primary_type = T_HOMICIDE /\ arg.crime.description = T_Theft
  /\ out >= 95

-----------------------------------------------------------------------------
(* Properties of GET /api/incidents, checked under SpecIncidents *)

\* the records of the answer that adapter a produced
bodyFrom(a) ==
  LET from(r) == r.source = a
  IN SelectSeq(response.body, from)

sameRecords(s, t) ==
  /\ Len(s) = Len(t)
  /\ {s[i] : i \in 1..Len(s)} = {t[i] : i \in 1..Len(t)}

\* C1: the answer to GET /api/incidents is a success whatever the adapters
\* came to; it holds every record each adapter that got through returned and
\* no record of an adapter whose provider call failed.
C1_FailingAdaptersExcluded ==
  aggPhase = "responded" =>
    /\ response.status = 200
    /\ \A a \in Adapters :
         IF adapterState[a] = "ok"
         THEN sameRecords(bodyFrom(a), adapterOut[a])
         ELSE bodyFrom(a) = <<>>

\* an answer built while one adapter had failed and two others had delivered
C1_Witness ==
  /\ aggPhase = "responded"
  /\ \E a \in Adapters : adapterState[a] = "failed"
  /\ \E b, c \in Adapters :
       /\ b # c /\ adapterState[b] = "ok" /\ adapterState[c] = "ok"
       /\ adapterOut[b] # <<>> /\ adapterOut[c] # <<>>
  /\ Len(response.body) >= 2

-----------------------------------------------------------------------------
(* Properties of POST /api/analyze-hotspots, checked under SpecAnalyze *)

\* whether some stretch of the text is a JSON object
containsJsonObject(text) ==
  \E i, j \in 1..Len(text) : i <= j /\ JSONparses(SubSeq(text, i, j))

\* the AI service is missing, its call threw, or its text holds no JSON object
MustFallBack ==
  \/ ~ genAI
  \/ aiReply.kind = "throws"
  \/ aiReply.kind = "text" /\ ~ containsJsonObject(aiReply.text)

\* C2: whenever the AI service is not configured, its call throws or its text
\* holds no parseable JSON object, the answer is a success carrying exactly
\* performAlgorithmicAnalysis of the request's incidents and cameras.
C2_FallbackIsAlgorithmic ==
  (anPhase = "responded" /\ MustFallBack) =>
    /\ anResponse.status = 200
    /\ \E now \in NowPool :
         anResponse.body = performAlgorithmicAnalysis(anReq.incidents, anReq.cameras, now)

\* fallbacks after a throw and after a text with braces but no JSON, on a
\* request whose analysis has a hotspot
C2_Witness ==
  /\ anPhase = "responded" /\ genAI
  /\ \/ aiReply.kind = "throws"
     \/ aiReply.kind = "text" /\ jsonMatch(aiReply.text) # <<>>
        /\ ~ containsJsonObject(aiReply.text)
  /\ anResponse.body.hotspots # <<>>

AnalysisFields == {"hotspots", "correlations", "threatLevel", "summary"}

conformsToAnalysisResult(b) ==
  /\ AnalysisFields \subseteq DOMAIN b
  /\ b.threatLevel \in {"low", "medium", "high"}

\* C3: every answer of POST /api/analyze-hotspots has a hotspots list, a
\* correlations list, a threatLevel among low, medium and high, and a summary.
C3_ResponseConforms ==
  anPhase = "responded" => conformsToAnalysisResult(anResponse.body)

-----------------------------------------------------------------------------
(* Properties of the MapContainer loads, checked under SpecMap *)

NoLoadInFlight == \A k \in 1..Len(loads) : loads[k] = Done

\* C4, as claimed: once loads have finished and none is in flight, the
\* incidents, cameras and hotspots in memory are all those of the load that
\* finished most recently.
C4_LatestResolvedWins ==
  (mounted /\ lastFinished > 0 /\ NoLoadInFlight) =>
    /\ incidents.load = lastFinished
    /\ cameras.load = lastFinished
    /\ hotspots.load = lastFinished

\* C4, as the code has it: a load overwrites the state in two steps, and each
\* step's last writer wins; incidents and cameras are those of the load whose
\* fetches resolved most recently, analysis and hotspots those of the load
\* whose analysis resolved most recently, whichever load was issued first.
C4_LatestStageWins ==
  mounted =>
    /\ lastFetched > 0 => incidents.load = lastFetched /\ cameras.load = lastFetched
    /\ lastFinished > 0 => analysis.load = lastFinished /\ hotspots.load = lastFinished

\* two overlapping loads, the later-issued one finished first: the hotspots
\* are the earlier load's, the incidents the later load's
C4_Witness ==
  /\ mounted /\ Len(loads) = 2 /\ NoLoadInFlight
  /\ lastFinished = 1 /\ lastFetched = 2
  /\ hotspots.load = 1 /\ incidents.load = 2

-----------------------------------------------------------------------------
(* Further properties of the clusterers, checked under Spec *)

\* the cells above the threshold, before sorting and truncation
candidatesOfCall ==
  IF IsServerAnalysis
  THEN serverCandidates(serverClusters(arg.incidents, arg.cameras))
  ELSE clientCandidates(clientClusters(arg.incidents, arg.cameras))

capOfCall == IF IsServerAnalysis THEN ServerCap ELSE ClientCap

\* C11: the hotspot list a clusterer returns is in non-increasing order of
\* intensity and no longer than the cap (20 server, 15 client); it is made of
\* qualifying cells, and a qualifying cell left out has no higher intensity
\* than any hotspot kept.
C11_SortedAndCapped ==
  IsAnalysis =>
    LET hs == out.hotspots
        cands == candidatesOfCall
    IN /\ \A i, j \in 1..Len(hs) : i < j => ~ RatGt(hs[j].intensity, hs[i].intensity)
       /\ Len(hs) <= capOfCall
       /\ Len(hs) = MathMin(capOfCall, Len(cands))
       /\ \A i \in 1..Len(hs) : \E c \in 1..Len(cands) : cands[c] = hs[i]
       /\ \A c \in 1..Len(cands) :
            (\A i \in 1..Len(hs) : hs[i] # cands[c]) =>
              \A i \in 1..Len(hs) : ~ RatGt(cands[c].intensity, hs[i].intensity)

\* a server run in which more cells qualify than the cap, of several intensities
C11_Witness ==
  /\ IsServerAnalysis
  /\ Len(candidatesOfCall) > ServerCap
  /\ Len(out.hotspots) = ServerCap
  /\ RatGt(out.hotspots[1].intensity, out.hotspots[ServerCap].intensity)

\* the level the thresholds 70 and 40 give to the mean intensity of a list
\* (an empty list has mean 0)
levelOfMean(hs) ==
  LET total == sumIntensity(hs)
  IN IF Len(hs) > 0 /\ total.num > 70 * Len(hs) * total.den THEN "high"
     ELSE IF Len(hs) > 0 /\ total.num > 40 * Len(hs) * total.den THEN "medium"
     ELSE "low"

\* C12 as stated: the threat level of every local clustering pass is the level
\* of the mean intensity over the hotspots kept in the returned list
C12_LevelOfKeptMean ==
  IsAnalysis => out.threatLevel = levelOfMean(out.hotspots)

\* C12 as the code has it: the server derives the threat level from the mean
\* intensity over every cell above the threshold, before the list is cut to
\* its cap; the client reports medium when more than five cells are above the
\* threshold and low otherwise, and never high
C12_LevelAsComputed ==
  IsAnalysis =>
    IF IsServerAnalysis
    THEN out.threatLevel = levelOfMean(candidatesOfCall)
    ELSE out.threatLevel =
           (IF Len(candidatesOfCall) > 5 THEN "medium" ELSE "low")

\* a server pass with more cells above the threshold than the cap, whose kept
\* hotspots have a mean above 40 while the mean over all of them is not
C12_Witness ==
  /\ IsServerAnalysis
  /\ Len(candidatesOfCall) > ServerCap
  /\ levelOfMean(out.hotspots) = "medium"
  /\ out.threatLevel = "low"
\* C13: the list GET /api/incidents answers with is in non-increasing order
\* of priority in every city branch, and the list GET /api/cameras answers with
\* is in non-increasing order of viewers, whichever adapters contributed
C13_AnswersSorted ==
  /\ fn = "GET /api/incidents" =>
       \A i, j \in 1..Len(out.body) : i < j => out.body[i].priority >= out.body[j].priority
  /\ fn = "GET /api/cameras" =>
       \A i, j \in 1..Len(out.body) : i < j => out.body[i].viewers >= out.body[j].viewers

\* an incidents answer merging records of at least three adapters, one of
\* them failed, whose priorities differ
C13_Witness ==
  /\ fn = "GET /api/incidents"
  /\ arg.failed # {}
  /\ Cardinality({out.body[i].source : i \in 1..Len(out.body)}) >= 3
  /\ out.body[1].priority > out.body[Len(out.body)].priority
IsCityEndpoint == fn \in {"GET /api/incidents", "GET /api/radio-streams", "GET /api/news"}

\* the city code of the observed request is none of the predefined ones
\* (compared as the handlers compare it, in lower case)
UnknownCityCall ==
  /\ IsCityEndpoint
  /\ TruthyText(arg.city)
  /\ queryCity(arg.city) \notin PredefinedCities

\* what the observed endpoint answers to the same request without a city
answerWithoutCity ==
  CASE fn = "GET /api/incidents" -> getIncidents(NoText, arg.failed, arg.now)
    [] fn = "GET /api/radio-streams" -> getRadioStreams(NoText, arg.seed)
    [] fn = "GET /api/news" -> getNews(NoText, arg.outcome, arg.articles, arg.now)

\* C14 as stated: on the three endpoints taking a city, a code outside the
\* predefined set is answered like a request without a city
C14_UnknownCityIsDefault ==
  UnknownCityCall => out = answerWithoutCity

\* C14 as the code has it: GET /api/incidents answers an unknown code like a
\* request without a city; GET /api/news does so unless the code names a
\* property the query table inherits; GET /api/radio-streams answers an
\* unknown code with the streams of that city, that is with the empty list
C14_UnknownCityPerEndpoint ==
  UnknownCityCall =>
    CASE fn = "GET /api/incidents" -> out = answerWithoutCity
      [] fn = "GET /api/news" ->
           queryCity(arg.city) # T_constructor => out = answerWithoutCity
      [] fn = "GET /api/radio-streams" ->
           out.body = <<>> /\ answerWithoutCity.body # <<>>

\* the radio streams of an unknown city: none
C14_Witness ==
  /\ fn = "GET /api/radio-streams"
  /\ arg.city = T_paris
  /\ out.body = <<>>
IsClientOperation ==
  fn \in {"fetchCameras", "fetchIncidents", "fetchRadioStreams", "fetchNews",
          "analyzeHotspots"}

\* the requests an operation makes after the one to the backend
fallbackRequests == SubSeq(out.requests, 2, Len(out.requests))

sourceCity(source) ==
  IF source \in {"fetchNYC311Incidents", "NYC 311"} THEN T_nyc
  ELSE IF source \in {"fetchEvansvilleCrimes", "fetchEvansvilleShotsFired"} THEN T_evansville
  ELSE T_chicago

\* the incidents the observed call returned
returnedIncidents ==
  IF fn = "GET /api/incidents" THEN out.body ELSE out.value

\* C15: for each predefined city code c, every record GET /api/incidents?city=c
\* answers with, and every record the client's fetchIncidents(c) resolves to,
\* through the backend or through its fallback, comes from a source of city c
C15_OnlyCityRecords ==
  (fn \in {"GET /api/incidents", "fetchIncidents"}
     /\ queryCity(arg.city) \in PredefinedCities) =>
    \A i \in 1..Len(returnedIncidents) :
      sourceCity(returnedIncidents[i].source) = queryCity(arg.city)
\* the provider's record has a latitude and a longitude that parse to numbers
providedCoordinates(raw) == raw.latitude # undefined /\ raw.longitude # undefined

\* C16: no adapter puts out a record whose provider record lacks a latitude or
\* a longitude: the incident adapters and the camera adapters of the backend
\* and the direct fallbacks of the client filter such records out, they do not
\* give them substitute coordinates
C16_NoRecordWithoutCoordinates ==
  /\ fn = "GET /api/incidents" =>
       \A i \in 1..Len(out.body) :
         providedCoordinates(providerRecord(out.body[i].source, out.body[i].id))
  /\ fn = "GET /api/cameras" =>
       \A i \in 1..Len(out.body) :
         /\ out.body[i].source = "NYC DOT" =>
              providedCoordinates(cameraProviderRecord("fetchNYCCameras", out.body[i].id[2]))
         /\ out.body[i].source = "Chicago DOT" =>
              providedCoordinates(
                cameraProviderRecord("fetchChicagoCameras", out.body[i].id[2] + 1))
  /\ (fn = "fetchIncidents" /\ arg.backend # "ok") =>
       \A i \in 1..Len(out.value) : providedCoordinates(fallbackRecord(out.value[i].id))
  /\ (fn = "fetchCameras" /\ arg.backend # "ok") =>
       \A i \in 1..Len(out.value) : providedCoordinates(fallbackRecord(out.value[i].id[2]))
\* C17: every view labels an incident by the documented bands (Critical from
\* 80, High 60 to 79, Medium 40 to 59, Low below 40), and the incidents panel
\* and the alert modal never label the same incident differently
C17_DocumentedBands ==
  fn = "render incident" =>
    /\ out.modal = readmeBand(arg.priority)
    /\ out.panel # "not listed" =>
         out.panel = readmeBand(arg.priority) /\ out.panel = out.modal
\* the sum of a sequence of integers
sumOf(ns) ==
  LET acc[i \in 0..Len(ns)] == IF i = 0 THEN 0 ELSE acc[i - 1] + ns[i]
  IN acc[Len(ns)]

\* the incidents and the cameras of the input that fall into the cell of
\* hotspot h: those with coordinates, cameras only with more than 50 viewers
cellIncidents(h) ==
  LET inCell(r) == Truthy(r.lat) /\ Truthy(r.lng) /\ clusterKey(r) = clusterKey(h)
  IN SelectSeq(arg.incidents, inCell)

cellCameras(h) ==
  LET inCell(r) ==
        Truthy(r.lat) /\ Truthy(r.lng) /\ Gt(r.viewers, 50) /\ clusterKey(r) = clusterKey(h)
  IN SelectSeq(arg.cameras, inCell)

\* min(100, total / count) as an exact rational
quotientClamped(total, count) ==
  IF total > 100 * count THEN Rat(100, 1) ELSE Rat(total, count)

\* the intensity the stated formula gives the cell of h: the incidents' own
\* priorities (50 for an incident without one) plus the cameras' viewers, over
\* the number of records plus one
statedIntensity(h) ==
  LET incs == cellIncidents(h)
      cams == cellCameras(h)
  IN quotientClamped(
       sumOf([i \in 1..Len(incs) |->
                IF incs[i].priority = undefined THEN 50 ELSE incs[i].priority])
         + sumOf([i \in 1..Len(cams) |-> cams[i].viewers]),
       Len(incs) + Len(cams) + 1)

\* C19 as stated: the intensity of every hotspot of a local clustering pass is
\* min(100, (sum of the cell's incident priorities + sum of its cameras'
\* viewers) / (incidents + cameras + 1)), an incident of priority 0 adding 0
C19_IntensityAsStated ==
  IsAnalysis =>
    \A i \in 1..Len(out.hotspots) :
      RatEq(out.hotspots[i].intensity, statedIntensity(out.hotspots[i]))

\* C19 as the code has it: on the server an incident adds its priority, or 50
\* when its priority is missing or 0; on the client the intensity is
\* min(100, 20 per incident + 10 per camera) and priorities play no part
C19_IntensityAsComputed ==
  IsAnalysis =>
    \A i \in 1..Len(out.hotspots) :
      LET h == out.hotspots[i]
          incs == cellIncidents(h)
          cams == cellCameras(h)
      IN IF IsServerAnalysis
         THEN RatEq(h.intensity,
                    quotientClamped(
                      sumOf([k \in 1..Len(incs) |->
                               IF incs[k].priority \in {undefined, 0} THEN 50
                               ELSE incs[k].priority])
                        + sumOf([k \in 1..Len(cams) |-> cams[k].viewers]),
                      Len(incs) + Len(cams) + 1))
         ELSE RatEq(h.intensity, Rat(MathMin(100, 20 * Len(incs) + 10 * Len(cams)), 1))

\* a server hotspot whose cell holds an incident of priority 0 and another
\* record, and whose intensity is not the stated one
C19_Witness ==
  /\ IsServerAnalysis
  /\ \E i \in 1..Len(out.hotspots) :
       /\ \E k \in 1..Len(cellIncidents(out.hotspots[i])) :
            cellIncidents(out.hotspots[i])[k].priority = 0
       /\ Len(cellIncidents(out.hotspots[i])) + Len(cellCameras(out.hotspots[i])) >= 2
       /\ ~ RatEq(out.hotspots[i].intensity, statedIntensity(out.hotspots[i]))
\* the cells of the observed clustering pass and their intensities
cellsOfCall ==
  IF IsServerAnalysis THEN serverClusters(arg.incidents, arg.cameras)
  ELSE clientClusters(arg.incidents, arg.cameras)

cellIntensity(cluster) ==
  IF IsServerAnalysis THEN serverIntensity(cluster) ELSE clientIntensity(cluster)

thresholdOfCall == IF IsServerAnalysis THEN ServerThreshold ELSE ClientThreshold

\* the number of hotspots before truncation, as the summary reports it
reportedCandidates == out.summary.hotspots

\* how many of the cells have an intensity of at least, and of more than, the
\* threshold
cellsFrom(cells, threshold) ==
  Cardinality({c \in 1..Len(cells) : ~ RatGt(Rat(threshold, 1), cellIntensity(cells[c]))})

cellsAbove(cells, threshold) ==
  Cardinality({c \in 1..Len(cells) : RatGtInt(cellIntensity(cells[c]), threshold)})

\* C20 as stated: a cell is discarded exactly when its intensity is below the
\* threshold (30 on the server, 20 on the client): no returned hotspot is below
\* it and every cell at or above it is a candidate before truncation
C20_KeptFromThreshold ==
  IsAnalysis =>
    /\ \A i \in 1..Len(out.hotspots) :
         ~ RatGt(Rat(thresholdOfCall, 1), out.hotspots[i].intensity)
    /\ reportedCandidates = cellsFrom(cellsOfCall, thresholdOfCall)

\* C20 as the code has it: a cell is discarded exactly when its intensity is at
\* or below the threshold: every returned hotspot is strictly above it and the
\* candidates before truncation are the cells strictly above it
C20_KeptAboveThreshold ==
  IsAnalysis =>
    /\ \A i \in 1..Len(out.hotspots) :
         RatGtInt(out.hotspots[i].intensity, thresholdOfCall)
    /\ reportedCandidates = cellsAbove(cellsOfCall, thresholdOfCall)

\* a client pass over a cell with a single incident: its intensity is exactly
\* the threshold and it is no hotspot
C20_Witness ==
  /\ fn = "performLocalAnalysis"
  /\ \E c \in 1..Len(cellsOfCall) :
       RatEq(cellIntensity(cellsOfCall[c]), Rat(ClientThreshold, 1))
  /\ reportedCandidates = 0
  /\ out.hotspots = <<>>

-----------------------------------------------------------------------------
(* Which records the clusterers count, checked under Spec *)

\* the record has both coordinates (neither is undefined, null or NaN)
hasLatLng(r) == r.lat # undefined /\ r.lng # undefined

\* the test a record passes to be counted: "present" asks for both
\* coordinates to be there, "truthy" for both to be truthy as the code's
\* (r.lat && r.lng) does; a camera needs viewers > 50 as well
countsUnder(test, r, isCamera) ==
  /\ IF test = "present" THEN hasLatLng(r) ELSE Truthy(r.lat) /\ Truthy(r.lng)
  /\ isCamera => Gt(r.viewers, 50)

\* the records of the input with this key that pass the test
recordsOfCell(records, key, test, isCamera) ==
  LET inCell(r) == countsUnder(test, r, isCamera) /\ clusterKey(r) = key
  IN SelectSeq(records, inCell)

\* what the incidents and cameras of a cell add to the server's totalPriority
weightedSum(incs, cams) ==
  sumOf([k \in 1..Len(incs) |-> OrElse(incs[k].priority, 50)])
    + sumOf([k \in 1..Len(cams) |-> cams[k].viewers])

\* the cells of the observed pass hold exactly the records passing the test,
\* each in the cell keyed by its rounded coordinates, and no two cells share a
\* key
cellsHold(cells, test) ==
     /\ \A c, d \in 1..Len(cells) : cells[c].key = cells[d].key => c = d
     /\ \A c \in 1..Len(cells) :
          /\ cells[c].incidents = recordsOfCell(arg.incidents, cells[c].key, test, FALSE)
          /\ cells[c].cameras = recordsOfCell(arg.cameras, cells[c].key, test, TRUE)
          /\ IsServerAnalysis =>
               cells[c].totalPriority = weightedSum(cells[c].incidents, cells[c].cameras)
     /\ \A i \in 1..Len(arg.incidents) :
          countsUnder(test, arg.incidents[i], FALSE) =>
            \E c \in 1..Len(cells) : cells[c].key = clusterKey(arg.incidents[i])
     /\ \A i \in 1..Len(arg.cameras) :
          countsUnder(test, arg.cameras[i], TRUE) =>
            \E c \in 1..Len(cells) : cells[c].key = clusterKey(arg.cameras[i])

cellsHoldExactly(test) == cellsHold(cellsOfCall, test)

\* C21 as stated: a record lacking lat or lng is in no cell, a camera with
\* viewers <= 50 is in none either, and every other incident and camera is in
\* exactly one cell, the one keyed by its rounded coordinates.
C21_AllOthersCounted == IsAnalysis => cellsHoldExactly("present")

\* C21 as the code has it: a record is counted when lat and lng are both truthy
\* (present and not 0), a camera only with viewers > 50 as well; such a record
\* is in exactly one cell, the one keyed by its rounded coordinates, and adds
\* to that cell's sum; every other record is in no cell.
C21_TruthyCounted == IsAnalysis => cellsHoldExactly("truthy")

\* a pass over an incident with longitude 0, an incident with coordinates and
\* a camera with more than 50 viewers: the first is in no cell
C21_Witness ==
  /\ IsAnalysis
  /\ \E i \in 1..Len(arg.incidents) :
       hasLatLng(arg.incidents[i]) /\ arg.incidents[i].lng = 0
  /\ \E c \in 1..Len(cellsOfCall) :
       Len(cellsOfCall[c].incidents) = 1 /\ Len(cellsOfCall[c].cameras) = 1
  /\ \A c \in 1..Len(cellsOfCall) :
       \A k \in 1..Len(cellsOfCall[c].incidents) : cellsOfCall[c].incidents[k].lng # 0

-----------------------------------------------------------------------------
(* Correlations of the clusterers, checked under Spec *)

\* the hotspot has incidents and cameras
hasBoth(h) == h.incidentCount > 0 /\ h.cameraCount > 0

\* the locations of the hotspots with incidents and cameras among the first
\* five returned, in their order
topLocations ==
  LET top == SelectSeq(slice0(out.hotspots, ServerCorrelationTop), hasBoth)
  IN [i \in 1..Len(top) |-> [lat |-> top[i].lat, lng |-> top[i].lng]]

\* the locations of the correlations returned, in their order
correlationLocations == [i \in 1..Len(out.correlations) |-> out.correlations[i].location]

\* C22 as stated: server and client clustering both return one correlation for
\* each of the top five hotspots that has incidents and cameras, and no other.
C22_BothCorrelate == IsAnalysis => correlationLocations = topLocations

\* C22 as the code has it: the server returns one correlation for each of the
\* top five hotspots by intensity that has incidents and cameras, in their
\* order, and no other; the client never returns a correlation.
C22_ServerCorrelatesOnly ==
  /\ IsServerAnalysis =>
       /\ correlationLocations = topLocations
       /\ out.summary.correlations = Len(topLocations)
       /\ \A i \in 1..Len(out.correlations) : out.correlations[i].type = "incident-camera"
  /\ fn = "performLocalAnalysis" => out.correlations = <<>>

\* a server pass with more than five hotspots, of which one of the top five and
\* one below them have incidents and cameras: only the former is correlated
C22_Witness ==
  /\ IsServerAnalysis
  /\ Len(out.correlations) = 1
  /\ \E i \in 1..Len(out.hotspots) : i > ServerCorrelationTop /\ hasBoth(out.hotspots[i])

-----------------------------------------------------------------------------
(* Further properties of the MapContainer loads, checked under SpecMap *)

\* a step that starts a load
LoadStarts == Len(loads') = Len(loads) + 1

\* C23: every load that starts, whether from the city selector, the refresh
\* button or the periodic timer, requests the incidents of the city that is
\* selected once the step is taken, never those of a city selected before.
C23_LoadsRequestSelectedCity ==
  [][LoadStarts => loads'[Len(loads')].city = selectedCity']_vars

\* the groups the layer filter admits on the map
admits(layer, group) == layer \in {group, "all"}

\* C24: the markers and circles on the map are those of the selected layer
\* filter: no group the filter leaves out is drawn, and once a load has
\* finished every group the filter admits is drawn.
C24_MarkersMatchLayer ==
  (mounted /\ mapReady) =>
    /\ markers.hotspots # 0 => admits(showLayer, "hotspots")
    /\ markers.incidents # 0 => admits(showLayer, "incidents")
    /\ markers.cameras # 0 => admits(showLayer, "cameras")
    /\ lastFinished > 0 =>
         /\ admits(showLayer, "hotspots") => markers.hotspots # 0
         /\ admits(showLayer, "incidents") => markers.incidents # 0
         /\ admits(showLayer, "cameras") => markers.cameras # 0

\* a load is between its start and its end
LoadInFlight == \E k \in 1..Len(loads) : loads[k] # Done

\* a step in which a load finishes
LoadFinishes == \E k \in 1..Len(loads) : loads[k] # Done /\ loads'[k] = Done

\* C25 as stated: isLoading is true in every state in which a load is in
\* flight, overlapping loads included.
C25_LoadingWhileInFlight == (mounted /\ LoadInFlight) => isLoading

\* C25 as the code has it: isLoading is set by every start of a load and
\* cleared by every end of a load, whichever load it is, and changed by nothing
\* else; so with one load at a time it is true exactly while the load is in
\* flight, and with overlapping loads the first to finish clears it.
C25_SetByStartClearedByEnd ==
  [][/\ LoadStarts => isLoading'
     /\ (mounted /\ LoadFinishes) => ~ isLoading'
     /\ (~ LoadStarts /\ ~ LoadFinishes) => isLoading' = isLoading
     /\ (mounted /\ Len(loads') = 1 /\ loads'[1] # Done) => isLoading']_vars

\* two overlapping loads of which one has finished: the other is in flight and
\* the indicator is off
C25_Witness ==
  /\ mounted /\ Len(loads) = 2
  /\ \E k \in 1..2 : loads[k] = Done /\ loads[3 - k] # Done
  /\ ~ isLoading

\* C26 as stated: the stored hotspots and analysis always belong to the load
\* the stored incidents and cameras belong to.
C26_OneLoadsSnapshot ==
  mounted =>
    /\ incidents.load = cameras.load
    /\ analysis.load = hotspots.load
    /\ hotspots.load = incidents.load

\* C26 as the code has it: a load replaces the snapshot in two steps, the
\* incidents and cameras together after its fetches, the analysis and hotspots
\* together after its analysis; the two halves belong to the same load only
\* when nothing has been fetched since that load's analysis was stored: not
\* while a load awaits its analysis, and not after overlapping loads that
\* finished in another order than they fetched.
C26_ReplacedInTwoSteps ==
  mounted =>
    /\ incidents.load = cameras.load
    /\ analysis.load = hotspots.load
    /\ hotspots.load = incidents.load <=> lastFetched = lastFinished
    /\ \A k \in 1..Len(loads) :
         (loads[k].phase = "analyzing" /\ lastFetched = k) =>
           incidents.load = k /\ hotspots.load # k

\* one load after the other, the second awaiting its analysis: the incidents
\* are the second load's, the hotspots still the first's
C26_Witness ==
  /\ mounted /\ Len(loads) = 2
  /\ loads[1] = Done /\ loads[2].phase = "analyzing"
  /\ lastFinished = 1 /\ lastFetched = 2
  /\ incidents.load = 2 /\ cameras.load = 2
  /\ hotspots.load = 1 /\ analysis.load = 1

-----------------------------------------------------------------------------
(* The summary of the server's analysis, checked under Spec *)

\* C27 as stated: the number of hotspots the summary of a server analysis
\* states is the length of the returned hotspot list, and the threat level is
\* that of the returned list, also when more than 20 cells qualify.
C27_SummaryOfReturnedList ==
  IsServerAnalysis =>
    /\ out.summary.hotspots = Len(out.hotspots)
    /\ out.summary.threatLevel = levelOfMean(out.hotspots)

\* the summary counts and rates the list cands, of which the returned list is
\* the first 20
summaryIsOf(cands) ==
  /\ out.summary.hotspots = Len(cands)
  /\ out.summary.hotspots = Len(out.hotspots) <=> Len(cands) <= ServerCap
  /\ out.summary.hotspots > ServerCap => Len(out.hotspots) = ServerCap
  /\ out.summary.threatLevel = out.threatLevel
  /\ out.summary.threatLevel = levelOfMean(cands)
  /\ out.summary.correlations = Len(out.correlations)

\* C27 as the code has it: the summary states the number of cells above the
\* threshold and the threat level of their mean, both taken before the list is
\* cut to 20; the count is the length of the returned list exactly when at most
\* 20 cells qualify, and the summary repeats the returned threatLevel and the
\* number of correlations.
C27_SummaryOfAllCandidates == IsServerAnalysis => summaryIsOf(candidatesOfCall)

\* a server analysis of 22 qualifying cells: the summary states 22 hotspots and
\* the list returned has 20
C27_Witness ==
  /\ IsServerAnalysis
  /\ out.summary.hotspots = MaxCells
  /\ Len(out.hotspots) = ServerCap

-----------------------------------------------------------------------------
(* Server and client clusterer on the same input, checked under Spec *)

\* the cells, counts and intensities of a hotspot list
cellsCountsIntensities(hs) ==
  [i \in 1..Len(hs) |->
     [cameraCount |-> hs[i].cameraCount, incidentCount |-> hs[i].incidentCount,
      intensity |-> hs[i].intensity, lat |-> hs[i].lat, lng |-> hs[i].lng]]

\* what the server's clusterer returns on the input of the observed call
serverOnSameInput == performAlgorithmicAnalysis(arg.incidents, arg.cameras, arg.now)

\* the records grouped into each cell, without the server's running sum
grouping(clusters) ==
  [i \in 1..Len(clusters) |->
     [cameras |-> clusters[i].cameras, incidents |-> clusters[i].incidents,
      key |-> clusters[i].key, lat |-> clusters[i].lat, lng |-> clusters[i].lng]]

\* C28 as stated: on every input the client's performLocalAnalysis returns the
\* same ordered hotspot list (cells, counts, intensities) and the same
\* threatLevel as the server's performAlgorithmicAnalysis.
C28_SameResult ==
  fn = "performLocalAnalysis" =>
    /\ cellsCountsIntensities(out.hotspots) = cellsCountsIntensities(serverOnSameInput.hotspots)
    /\ out.threatLevel = serverOnSameInput.threatLevel

\* two hotspots for the same cell have the same place and counts
sameCellSameCounts(ch, sh) ==
  \A i \in 1..Len(ch) :
    \A j \in 1..Len(sh) :
      clusterKey(ch[i]) = clusterKey(sh[j]) =>
        /\ ch[i].lat = sh[j].lat /\ ch[i].lng = sh[j].lng
        /\ ch[i].incidentCount = sh[j].incidentCount
        /\ ch[i].cameraCount = sh[j].cameraCount

\* every hotspot of the one list has a hotspot for its cell in the other, at
\* another intensity
sameCellOtherIntensity(ch, sh) ==
  /\ Len(ch) = Len(sh)
  /\ \A i \in 1..Len(ch) :
       \E j \in 1..Len(sh) :
         /\ clusterKey(ch[i]) = clusterKey(sh[j])
         /\ ~ RatEq(ch[i].intensity, sh[j].intensity)

\* C28 as the code has it: the two clusterers group the records into the same
\* cells, so a cell both report has the same place and counts; the client
\* scores a cell by its counts alone and the server by priorities and viewers,
\* the client never reports high or a correlation, and the lists are cut at 15
\* and 20.
C28_SameCellsOnly ==
  fn = "performLocalAnalysis" =>
    /\ grouping(clientClusters(arg.incidents, arg.cameras))
         = grouping(serverClusters(arg.incidents, arg.cameras))
    /\ sameCellSameCounts(out.hotspots, serverOnSameInput.hotspots)
    /\ \A i \in 1..Len(out.hotspots) :
         out.hotspots[i].intensity
           = Rat(MathMin(100, 20 * out.hotspots[i].incidentCount
                                + 10 * out.hotspots[i].cameraCount), 1)
    /\ out.threatLevel \in {"low", "medium"}
    /\ out.correlations = <<>>
    /\ Len(out.hotspots) <= ClientCap

\* a client pass whose hotspots the server reports too, at other intensities
\* and with another threat level
C28_Witness ==
  /\ fn = "performLocalAnalysis"
  /\ Len(out.hotspots) > 0
  /\ sameCellOtherIntensity(out.hotspots, serverOnSameInput.hotspots)
  /\ out.threatLevel # serverOnSameInput.threatLevel

-----------------------------------------------------------------------------
(* The crash scorer and the number of injuries, checked under Spec *)

\* the number an injuries field stands for (parseInt(..) || 0)
injuriesOf(s) == OrElse(parseInt(s), 0)

\* the crash records that differ from crash only in having more injuries
moreInjured(crash) ==
  {[crash EXCEPT !.injuries_fatal = f, !.injuries_incapacitating = i, !.injuries_total = t] :
     f \in {s \in NumStrPool : injuriesOf(s) >= injuriesOf(crash.injuries_fatal)},
     i \in {s \in NumStrPool : injuriesOf(s) >= injuriesOf(crash.injuries_incapacitating)},
     t \in {s \in NumStrPool : injuriesOf(s) >= injuriesOf(crash.injuries_total)}}

\* a hit-and-run crash without injuries, and the same crash with one or two
\* injuries of which none is fatal or incapacitating
injuredHitAndRun(crash, more) ==
  /\ crash.hit_and_run_i = "Y"
  /\ injuriesOf(crash.injuries_fatal) = 0
  /\ injuriesOf(crash.injuries_incapacitating) = 0
  /\ injuriesOf(crash.injuries_total) = 0
  /\ injuriesOf(more.injuries_fatal) = 0
  /\ injuriesOf(more.injuries_incapacitating) = 0
  /\ injuriesOf(more.injuries_total) \in {1, 2}

\* C29 as stated: of two crash records that differ only in the number of
\* injuries, the one with more injuries never scores lower.
C29_MoreInjuriesNeverLower ==
  fn = "calculateCrashPriority" =>
    \A more \in moreInjured(arg) : calculateCrashPriority(more) >= out

\* C29 as the code has it: the record with more injuries scores lower in one
\* case and only there: a hit-and-run crash without injuries scores 75, and the
\* same crash with one or two injuries, none fatal or incapacitating, scores 70.
C29_LowerOnlyForInjuredHitAndRun ==
  fn = "calculateCrashPriority" =>
    \A more \in moreInjured(arg) :
      IF injuredHitAndRun(arg, more)
      THEN out = 75 /\ calculateCrashPriority(more) = 70
      ELSE calculateCrashPriority(more) >= out

\* the score of a hit-and-run crash without injuries, which the same crash
\* with one injury does not reach
C29_Witness ==
  /\ fn = "calculateCrashPriority"
  /\ arg.hit_and_run_i = "Y" /\ out = 75
  /\ \E more \in moreInjured(arg) :
       injuriesOf(more.injuries_total) = 1 /\ calculateCrashPriority(more) = 70

-----------------------------------------------------------------------------
(* Termination of the MapContainer loads, checked under SpecMapLive *)

\* load k has been started and has not finished
Pending(k) == k <= Len(loads) /\ loads[k] # Done

\* load k has finished and left the loading indicator off
FinishedAndCleared(k) == k <= Len(loads) /\ loads[k] = Done /\ ~ isLoading

\* C30: every load that is started eventually finishes and leaves isLoading
\* false, whatever the fetches and the analysis came back with, given that
\* every network request eventually settles.
C30_EveryLoadFinishes ==
  \A k \in 1..MaxLoads : Pending(k) ~> FinishedAndCleared(k)

\* both loads have finished, one that fetched no incident at all and one whose
\* analysis came back without hotspots, and the indicator is off
C30_Witness ==
  /\ Len(loads) = MaxLoads /\ NoLoadInFlight
  /\ ~ isLoading
  /\ ~ hotspots.defined
  /\ incidents.count = 0
====
